---------------------------- MODULE Spec2Model ----------------------------
(***************************************************************************)
(* A model of the C-- compiler (alekshiidenhovi/C--): the lexer            *)
(* (src/compiler/lexer), the parser (src/compiler/parser), the TACKY IR    *)
(* generator (src/compiler/ir_gen), the code generator                     *)
(* (src/compiler/code_gen), the code emitter (src/compiler/code_emission)  *)
(* and the driver run_cmm_compiler, with the properties the specification  *)
(* states about them.                                                      *)
(***************************************************************************)
EXTENDS Integers, Sequences, FiniteSets, TLC

VARIABLES
    cmm_expression,      \* the expression of the function's return statement
    temp_counter,        \* TackyEmitter.temp_counter
    label_counter,       \* TackyEmitter.label_counter
    tacky_instructions,  \* TackyFunction.instructions
    asm_instructions,    \* convert_instructions: asm_instructions
    stack_offset,        \* convert_instructions: stack_offset
    final_instructions,  \* convert_instructions: final_instructions
    stage,               \* how far the pipeline or the execution has run
    pc,                  \* execution: position of the next TACKY instruction
    env,                 \* execution: the value held by each temporary
    trace,               \* execution: the positions executed so far, in order
    returned_value,      \* execution: the value handed to Return
    tokens,              \* Parser.tokens
    position,            \* Parser.position
    parse_result,        \* what Parser::parse_ast returned
    input_str,           \* tokenize: input_str, a sequence of characters
    string_stream,       \* tokenize: string_stream
    token_vec,           \* tokenize: token_vec
    iterations,          \* tokenize: passes of its loop so far, modulo IterationsModulus
    process_until,       \* run_cmm_compiler: process_until
    compiler_result,     \* what run_cmm_compiler returned
    output_file,         \* the file at output_path
    process              \* cmmc_driver's main: its arguments, the files
                         \* around it, its position and its exit code

exec_vars == <<pc, env, trace, returned_value>>

lexer_vars == <<input_str, string_stream, token_vec, iterations>>

driver_vars == <<process_until, compiler_result, output_file, process>>

front_vars == <<tokens, position, parse_result, lexer_vars, driver_vars>>

vars == <<cmm_expression, temp_counter, label_counter, tacky_instructions,
          asm_instructions, stack_offset, final_instructions, stage,
          pc, env, trace, returned_value, tokens, position, parse_result,
          input_str, string_stream, token_vec, iterations,
          process_until, compiler_result, output_file, process>>

-----------------------------------------------------------------------------
(* Bounds of the checked inputs *)

\* the longest TACKY instruction list handed to the code generator on its own
MaxLen == 3

\* the most operator nodes in an expression handed to the IR generator
MaxNodes == 2
MaxTrailing == 2

-----------------------------------------------------------------------------
(* TACKY IR: ir_gen/tacky_ast.rs *)

Constant(v) == [kind |-> "Constant", value |-> v]
Variable(n) == [kind |-> "Variable", name |-> n]

TackyReturn(v) == [kind |-> "Return", value |-> v]
TackyUnary(op, s, d) ==
    [kind |-> "Unary", operator |-> op, source |-> s, destination |-> d]
TackyBinary(op, s1, s2, d) ==
    [kind |-> "Binary", operator |-> op, source1 |-> s1, source2 |-> s2,
     destination |-> d]
TackyCopy(s, d) == [kind |-> "Copy", source |-> s, destination |-> d]
TackyJump(t) == [kind |-> "Jump", target |-> t]
TackyJumpIfZero(c, t) == [kind |-> "JumpIfZero", condition |-> c, target |-> t]
TackyJumpIfNotZero(c, t) ==
    [kind |-> "JumpIfNotZero", condition |-> c, target |-> t]
TackyLabel(l) == [kind |-> "Label", label |-> l]

TackyUnaryOperator == {"Complement", "Negate", "Not"}
TackyBinaryOperator ==
    {"Add", "Subtract", "Multiply", "Divide", "Remainder", "Equal", "NotEqual",
     "LessThan", "GreaterThan", "LessThanEqual", "GreaterThanEqual"}

-----------------------------------------------------------------------------
(* C-- AST: parser/cmm_ast.rs *)

IntegerConstant(v) == [kind |-> "IntegerConstant", value |-> v]
CmmUnary(op, e) == [kind |-> "Unary", operator |-> op, expression |-> e]
CmmBinary(op, l, r) ==
    [kind |-> "Binary", operator |-> op, left |-> l, right |-> r]

CmmUnaryOperator == {"Complement", "Negate", "Not"}
CmmBinaryOperator ==
    {"Add", "Subtract", "Multiply", "Divide", "Remainder", "And", "Or", "Equal",
     "NotEqual", "GreaterThan", "LessThan", "GreaterThanEqual", "LessThanEqual"}

-----------------------------------------------------------------------------
(* TACKY IR generator: ir_gen/mod.rs *)

\* Result<T, E>
Ok(v) == [ok |-> TRUE, value |-> v]
Err(e) == [ok |-> FALSE, error |-> e]

\* the emitter's two counters together with the instruction vector that
\* emit_tacky appends to
Emitter(tc, lc, instructions) ==
    [temp_counter |-> tc, label_counter |-> lc, instructions |-> instructions]

TackyEmitterNew == Emitter(0, 0, <<>>)

push(em, instruction) ==
    [em EXCEPT !.instructions = Append(@, instruction)]

\* a make_temporary that leaves temp_counter as it is
make_temporary_counter_kept(em) ==
    [name |-> "tmp." \o ToString(em.temp_counter),
     emitter |-> em]

make_temporary(em) ==
    [name |-> "tmp." \o ToString(em.temp_counter),
     emitter |-> [em EXCEPT !.temp_counter = @ + 1]]

\* a make_label that leaves label_counter as it is
make_label_counter_kept(em, label_name) ==
    [name |-> label_name \o ToString(em.label_counter),
     emitter |-> em]

\* a make_label that takes its index from the temporaries' counter too
make_label_advancing_temporaries(em, label_name) ==
    [name |-> label_name \o ToString(em.label_counter),
     emitter |-> [em EXCEPT !.label_counter = @ + 1, !.temp_counter = @ + 1]]

make_label(em, label_name) ==
    [name |-> label_name \o ToString(em.label_counter),
     emitter |-> [em EXCEPT !.label_counter = @ + 1]]

convert_unary_operator(cmm_operator) ==
    CASE cmm_operator = "Complement" -> "Complement"
      [] cmm_operator = "Negate" -> "Negate"
      [] cmm_operator = "Not" -> "Not"

convert_binary_operator(cmm_operator) ==
    IF cmm_operator \in {"And", "Or"}
    THEN Err([kind |-> "UnsupportedBinaryOperatorConversion",
              operator |-> cmm_operator])
    ELSE Ok(cmm_operator)

\* a tail whose jump over the fallback copy is left out
short_circuit_tail_fall_through(em, label_short, label_end, first, second) ==
    LET t == make_temporary(em)
        destination == Variable(t.name)
    IN  [ok |-> TRUE, value |-> destination,
         emitter |->
            push(push(push(push(t.emitter,
                TackyCopy(Constant(first), destination)),
                TackyLabel(label_short)),
                TackyCopy(Constant(second), destination)),
                TackyLabel(label_end))]

\* a tail that copies the two constants in the opposite order
short_circuit_tail_copies_swapped(em, label_short_name, label_end_name, first, second) ==
    LET t == make_temporary(em)
        destination == Variable(t.name)
    IN  [ok |-> TRUE, value |-> destination,
         emitter |->
            push(push(push(push(push(t.emitter,
                TackyCopy(Constant(second), destination)),
                TackyJump(label_end_name)),
                TackyLabel(label_short_name)),
                TackyCopy(Constant(first), destination)),
                TackyLabel(label_end_name))]

\* a tail whose jump goes back to the label of the other branch, placed
\* before the first copy
short_circuit_tail_jump_back(em, label_short_name, label_end_name, first, second) ==
    LET t == make_temporary(em)
        destination == Variable(t.name)
    IN  [ok |-> TRUE, value |-> destination,
         emitter |->
            push(push(push(push(push(t.emitter,
                TackyLabel(label_short_name)),
                TackyCopy(Constant(first), destination)),
                TackyJump(label_short_name)),
                TackyCopy(Constant(second), destination)),
                TackyLabel(label_end_name))]

\* the end of the And and Or arms of emit_tacky, once both operands and their
\* conditional jumps are emitted: first/second are the two constants copied
short_circuit_tail(em, label_short_name, label_end_name, first, second) ==
    LET t == make_temporary(em)
        destination == Variable(t.name)
    IN  [ok |-> TRUE, value |-> destination,
         emitter |->
            push(push(push(push(push(t.emitter,
                TackyCopy(Constant(first), destination)),
                TackyJump(label_end_name)),
                TackyLabel(label_short_name)),
                TackyCopy(Constant(second), destination)),
                TackyLabel(label_end_name))]

\* emit_tacky: Ok(value) with the emitter after the call, or the error
RECURSIVE emit_tacky(_, _)
emit_tacky(cmm_expression_, em) ==
    LET e == cmm_expression_
    IN  CASE e.kind = "IntegerConstant" ->
                [ok |-> TRUE, value |-> Constant(e.value), emitter |-> em]
          [] e.kind = "Unary" ->
                LET source == emit_tacky(e.expression, em)
                IN  IF ~source.ok THEN source
                    ELSE LET t == make_temporary(source.emitter)
                             destination == Variable(t.name)
                             operator == convert_unary_operator(e.operator)
                         IN  [ok |-> TRUE, value |-> destination,
                              emitter |-> push(t.emitter,
                                  TackyUnary(operator, source.value, destination))]
          [] e.kind = "Binary" /\ e.operator = "And" ->
                LET label_false == make_label(em, "and_false")
                    label_end == make_label(label_false.emitter, "and_end")
                    source1 == emit_tacky(e.left, label_end.emitter)
                IN  IF ~source1.ok THEN source1
                    ELSE LET source2 ==
                                 emit_tacky(e.right,
                                     push(source1.emitter,
                                          TackyJumpIfZero(source1.value,
                                                          label_false.name)))
                         IN  IF ~source2.ok THEN source2
                             ELSE short_circuit_tail(
                                      push(source2.emitter,
                                           TackyJumpIfZero(source2.value,
                                                           label_false.name)),
                                      label_false.name, label_end.name, 1, 0)
          [] e.kind = "Binary" /\ e.operator = "Or" ->
                LET label_true == make_label(em, "or_true")
                    label_end == make_label(label_true.emitter, "or_end")
                    source1 == emit_tacky(e.left, label_end.emitter)
                IN  IF ~source1.ok THEN source1
                    ELSE LET source2 ==
                                 emit_tacky(e.right,
                                     push(source1.emitter,
                                          TackyJumpIfNotZero(source1.value,
                                                             label_true.name)))
                         IN  IF ~source2.ok THEN source2
                             ELSE short_circuit_tail(
                                      push(source2.emitter,
                                           TackyJumpIfNotZero(source2.value,
                                                              label_true.name)),
                                      label_true.name, label_end.name, 0, 1)
          [] e.kind = "Binary" /\ e.operator \notin {"And", "Or"} ->
                LET source1 == emit_tacky(e.left, em)
                IN  IF ~source1.ok THEN source1
                    ELSE LET source2 == emit_tacky(e.right, source1.emitter)
                         IN  IF ~source2.ok THEN source2
                             ELSE LET t == make_temporary(source2.emitter)
                                      destination == Variable(t.name)
                                      operator ==
                                          convert_binary_operator(e.operator)
                                  IN  IF ~operator.ok
                                      THEN [ok |-> FALSE,
                                            error |-> operator.error,
                                            emitter |-> t.emitter]
                                      ELSE [ok |-> TRUE, value |-> destination,
                                            emitter |-> push(t.emitter,
                                                TackyBinary(operator.value,
                                                    source1.value, source2.value,
                                                    destination))]

\* convert_statement on Return{expression}: the instruction vector is created
\* empty, filled by emit_tacky and closed by the Return
convert_statement(expression, em) ==
    LET r == emit_tacky(expression, [em EXCEPT !.instructions = <<>>])
    IN  IF ~r.ok THEN r
        ELSE [ok |-> TRUE, value |-> r.value,
              emitter |-> push(r.emitter, TackyReturn(r.value))]

-----------------------------------------------------------------------------
(* Assembly AST: the instruction and operand variants code_gen/mod.rs builds *)

Imm(v) == [kind |-> "Imm", value |-> v]
Register(r) == [kind |-> "Register", reg |-> r]
Pseudo(n) == [kind |-> "Pseudo", name |-> n]
Stack(o) == [kind |-> "Stack", offset |-> o]

Mov(s, d) == [kind |-> "Mov", source |-> s, destination |-> d]
AssemblyUnary(op, o) == [kind |-> "Unary", op |-> op, operand |-> o]
AssemblyBinary(op, s, d) ==
    [kind |-> "Binary", op |-> op, source |-> s, destination |-> d]
Cmp(l, r) == [kind |-> "Cmp", left |-> l, right |-> r]
Idiv(o) == [kind |-> "Idiv", operand |-> o]
Cdq == [kind |-> "Cdq"]
Jmp(l) == [kind |-> "Jmp", label |-> l]
JmpCC(cc, l) == [kind |-> "JmpCC", condition |-> cc, label |-> l]
SetCC(cc, o) == [kind |-> "SetCC", condition |-> cc, operand |-> o]
AssemblyLabel(l) == [kind |-> "Label", label |-> l]
AllocateStack(o) == [kind |-> "AllocateStack", stack_offset |-> o]
Ret == [kind |-> "Ret"]

-----------------------------------------------------------------------------
(* Code generator, pass 1: instruction conversion *)

convert_operand(tacky_operand) ==
    IF tacky_operand.kind = "Constant"
    THEN Imm(tacky_operand.value)
    ELSE Pseudo(tacky_operand.name)

\* condition codes chosen as if Cmp had s1 on the left: L and G, LE and GE
\* change places
convert_condition_code_mirrored(tacky_binary_operator) ==
    CASE tacky_binary_operator = "Equal" -> Ok("E")
      [] tacky_binary_operator = "NotEqual" -> Ok("NE")
      [] tacky_binary_operator = "LessThan" -> Ok("G")
      [] tacky_binary_operator = "GreaterThan" -> Ok("L")
      [] tacky_binary_operator = "LessThanEqual" -> Ok("GE")
      [] tacky_binary_operator = "GreaterThanEqual" -> Ok("LE")
      [] OTHER -> Err([kind |-> "UnsupportedConditionCodeConversion",
                       operator |-> tacky_binary_operator])

convert_condition_code(tacky_binary_operator) ==
    CASE tacky_binary_operator = "Equal" -> Ok("E")
      [] tacky_binary_operator = "NotEqual" -> Ok("NE")
      [] tacky_binary_operator = "LessThan" -> Ok("L")
      [] tacky_binary_operator = "GreaterThan" -> Ok("G")
      [] tacky_binary_operator = "LessThanEqual" -> Ok("LE")
      [] tacky_binary_operator = "GreaterThanEqual" -> Ok("GE")
      [] OTHER -> Err([kind |-> "UnsupportedConditionCodeConversion",
                       operator |-> tacky_binary_operator])

\* one iteration of the loop of instruction_conversion_pass: the instructions
\* pushed for one TACKY instruction, or the error that `?` returns
convert_tacky_instruction(ti) ==
    CASE ti.kind = "Return" ->
            Ok(<<Mov(convert_operand(ti.value), Register("AX")), Ret>>)
      [] ti.kind = "Unary" /\ ti.operator = "Not" ->
            Ok(<<Cmp(Imm(0), convert_operand(ti.source)),
                 Mov(Imm(0), convert_operand(ti.destination)),
                 SetCC("E", convert_operand(ti.destination))>>)
      [] ti.kind = "Unary" /\ ti.operator # "Not" ->
            LET unary_op == IF ti.operator = "Complement" THEN "Not" ELSE "Neg"
            IN  Ok(<<Mov(convert_operand(ti.source),
                         convert_operand(ti.destination)),
                     AssemblyUnary(unary_op, convert_operand(ti.destination))>>)
      [] ti.kind = "Binary"
           /\ ti.operator \in {"Add", "Subtract", "Multiply"} ->
            LET binary_op == CASE ti.operator = "Add" -> "Add"
                               [] ti.operator = "Subtract" -> "Sub"
                               [] ti.operator = "Multiply" -> "Mult"
            IN  Ok(<<Mov(convert_operand(ti.source1),
                         convert_operand(ti.destination)),
                     AssemblyBinary(binary_op, convert_operand(ti.source2),
                                    convert_operand(ti.destination))>>)
      [] ti.kind = "Binary" /\ ti.operator \in {"Divide", "Remainder"} ->
            Ok(<<Mov(convert_operand(ti.source1), Register("AX")),
                 Cdq,
                 Idiv(convert_operand(ti.source2)),
                 Mov(Register(IF ti.operator = "Divide" THEN "AX" ELSE "DX"),
                     convert_operand(ti.destination))>>)
      [] ti.kind = "Binary"
           /\ ti.operator \notin {"Add", "Subtract", "Multiply", "Divide",
                                  "Remainder"} ->
            LET cc == convert_condition_code(ti.operator)
            IN  IF cc.ok
                THEN Ok(<<Cmp(convert_operand(ti.source2),
                              convert_operand(ti.source1)),
                          Mov(Imm(0), convert_operand(ti.destination)),
                          SetCC(cc.value, convert_operand(ti.destination))>>)
                ELSE cc
      [] ti.kind = "Copy" ->
            Ok(<<Mov(convert_operand(ti.source),
                     convert_operand(ti.destination))>>)
      [] ti.kind = "Jump" -> Ok(<<Jmp(ti.target)>>)
      [] ti.kind = "JumpIfZero" ->
            Ok(<<Cmp(Imm(0), convert_operand(ti.condition)),
                 JmpCC("E", ti.target)>>)
      [] ti.kind = "JumpIfNotZero" ->
            Ok(<<Cmp(Imm(0), convert_operand(ti.condition)),
                 JmpCC("NE", ti.target)>>)
      [] ti.kind = "Label" -> Ok(<<AssemblyLabel(ti.label)>>)

RECURSIVE conversion_loop(_, _)
conversion_loop(tis, acc) ==
    IF tis = <<>>
    THEN Ok(acc)
    ELSE LET r == convert_tacky_instruction(Head(tis))
         IN  IF r.ok THEN conversion_loop(Tail(tis), acc \o r.value) ELSE r

instruction_conversion_pass(tis) == conversion_loop(tis, <<>>)

-----------------------------------------------------------------------------
(* Code generator, pass 2: pseudo-register replacement *)

\* constants::STACK_ADDRESS_OFFSET: the size of one stack slot in bytes
STACK_ADDRESS_OFFSET == 4

\* the state the pass threads through its loop; identifier_offsets is the
\* HashMap<String, i32>, a function on the names inserted so far
ReplacementState(operands, identifier_offsets, offset_counter) ==
    [operands |-> operands, identifier_offsets |-> identifier_offsets,
     offset_counter |-> offset_counter]

\* convert_pseudo_register with the operand left as it is when its name is
\* already in the map (the hit branch returns before assigning *operand)
convert_pseudo_register_hit_unassigned(operand, st) ==
    IF operand.kind = "Pseudo" /\ operand.name \notin DOMAIN st.identifier_offsets
    THEN LET counter == st.offset_counter - STACK_ADDRESS_OFFSET
         IN  ReplacementState(
                 Append(st.operands, Stack(counter)),
                 (operand.name :> counter) @@ st.identifier_offsets,
                 counter)
    ELSE ReplacementState(Append(st.operands, operand),
                          st.identifier_offsets, st.offset_counter)

\* convert_pseudo_register without identifier_offsets.insert: no name is ever
\* found again
convert_pseudo_register_no_insert(operand, st) ==
    IF operand.kind = "Pseudo"
    THEN LET counter == st.offset_counter - STACK_ADDRESS_OFFSET
         IN  ReplacementState(Append(st.operands, Stack(counter)),
                              st.identifier_offsets, counter)
    ELSE ReplacementState(Append(st.operands, operand),
                          st.identifier_offsets, st.offset_counter)

\* convert_pseudo_register handing out the counter's value before moving it:
\* the first slot is Stack(0)
convert_pseudo_register_slot_before_decrement(operand, st) ==
    IF operand.kind = "Pseudo"
    THEN IF operand.name \in DOMAIN st.identifier_offsets
         THEN ReplacementState(
                  Append(st.operands, Stack(st.identifier_offsets[operand.name])),
                  st.identifier_offsets, st.offset_counter)
         ELSE ReplacementState(
                  Append(st.operands, Stack(st.offset_counter)),
                  (operand.name :> st.offset_counter) @@ st.identifier_offsets,
                  st.offset_counter - STACK_ADDRESS_OFFSET)
    ELSE ReplacementState(Append(st.operands, operand),
                          st.identifier_offsets, st.offset_counter)

\* convert_pseudo_register on `operand`; the converted operand is appended to
\* st.operands
convert_pseudo_register(operand, st) ==
    IF operand.kind = "Pseudo"
    THEN IF operand.name \in DOMAIN st.identifier_offsets
         THEN ReplacementState(
                  Append(st.operands, Stack(st.identifier_offsets[operand.name])),
                  st.identifier_offsets, st.offset_counter)
         ELSE LET counter == st.offset_counter - STACK_ADDRESS_OFFSET
              IN  ReplacementState(
                      Append(st.operands, Stack(counter)),
                      (operand.name :> counter) @@ st.identifier_offsets,
                      counter)
    ELSE ReplacementState(Append(st.operands, operand),
                          st.identifier_offsets, st.offset_counter)

\* one iteration of the loop of pseudoregister_replacement_pass: the
\* instruction as rewritten in place, and the map and counter after it
replace_pseudo_registers(instruction, identifier_offsets, offset_counter) ==
    LET st0 == ReplacementState(<<>>, identifier_offsets, offset_counter)
    IN  CASE instruction.kind = "Mov" ->
                LET st == convert_pseudo_register(instruction.destination,
                              convert_pseudo_register(instruction.source, st0))
                IN  [instruction |-> Mov(st.operands[1], st.operands[2]),
                     state |-> st]
          [] instruction.kind = "Unary" ->
                LET st == convert_pseudo_register(instruction.operand, st0)
                IN  [instruction |-> AssemblyUnary(instruction.op, st.operands[1]),
                     state |-> st]
          [] instruction.kind = "Binary" ->
                LET st == convert_pseudo_register(instruction.destination,
                              convert_pseudo_register(instruction.source, st0))
                IN  [instruction |-> AssemblyBinary(instruction.op,
                                         st.operands[1], st.operands[2]),
                     state |-> st]
          [] instruction.kind = "Idiv" ->
                LET st == convert_pseudo_register(instruction.operand, st0)
                IN  [instruction |-> Idiv(st.operands[1]), state |-> st]
          [] instruction.kind = "Cmp" ->
                LET st == convert_pseudo_register(instruction.right,
                              convert_pseudo_register(instruction.left, st0))
                IN  [instruction |-> Cmp(st.operands[1], st.operands[2]),
                     state |-> st]
          [] instruction.kind = "SetCC" ->
                LET st == convert_pseudo_register(instruction.operand, st0)
                IN  [instruction |-> SetCC(instruction.condition, st.operands[1]),
                     state |-> st]
          [] OTHER -> [instruction |-> instruction, state |-> st0]

RECURSIVE replacement_loop(_, _, _, _)
replacement_loop(instructions, acc, identifier_offsets, offset_counter) ==
    IF instructions = <<>>
    THEN [instructions |-> acc, identifier_offsets |-> identifier_offsets,
          offset_counter |-> offset_counter]
    ELSE LET r == replace_pseudo_registers(Head(instructions),
                                           identifier_offsets, offset_counter)
         IN  replacement_loop(Tail(instructions), Append(acc, r.instruction),
                              r.state.identifier_offsets,
                              r.state.offset_counter)

\* the instructions as mutated in place, the final map (dropped by the code)
\* and the returned offset_counter
pseudoregister_replacement_pass(instructions) ==
    replacement_loop(instructions, <<>>, <<>>, 0)

-----------------------------------------------------------------------------
(* Code generator, pass 3 and pass 4: stack allocation, instruction fixup *)

\* a frame that is one slot short
stack_allocation_pass_one_slot_short(offset) ==
    AllocateStack(offset + STACK_ADDRESS_OFFSET)

stack_allocation_pass(offset) == AllocateStack(offset)

register_r10 == Register("R10")
register_r11 == Register("R11")

\* the fixup arms as they would be with the rewrite forgotten
fixup_mov_unchanged(i) == <<i>>
fixup_mult_unchanged(i) == <<i>>
fixup_idiv_unchanged(i) == <<i>>

\* the Cmp arm without its (left, Imm) case
fixup_cmp_stack_only(i) ==
    IF i.left.kind = "Stack" /\ i.right.kind = "Stack"
    THEN <<Mov(i.left, Register("R10")), Cmp(Register("R10"), i.right)>>
    ELSE <<i>>

\* the Mov arm
fixup_mov(i) ==
    IF i.source.kind = "Stack" /\ i.destination.kind = "Stack"
    THEN <<Mov(i.source, register_r10), Mov(register_r10, i.destination)>>
    ELSE <<i>>

\* the Add | Sub arm with AX as its scratch register
fixup_add_sub_through_ax(i) ==
    IF i.source.kind = "Stack" /\ i.destination.kind = "Stack"
    THEN <<Mov(i.source, Register("AX")),
           AssemblyBinary(i.op, Register("AX"), i.destination)>>
    ELSE <<i>>

\* the Binary arm, Add | Sub
fixup_add_sub(i) ==
    IF i.source.kind = "Stack" /\ i.destination.kind = "Stack"
    THEN <<Mov(i.source, register_r10),
           AssemblyBinary(i.op, register_r10, i.destination)>>
    ELSE <<i>>

\* the Binary arm, Mult
fixup_mult(i) ==
    <<Mov(i.destination, register_r11),
      AssemblyBinary(i.op, i.source, register_r11),
      Mov(register_r11, i.destination)>>

\* the Idiv arm
fixup_idiv(i) ==
    <<Mov(i.operand, register_r10), Idiv(register_r10)>>

\* the Cmp arm: (Stack, Stack) is matched first, then (left, Imm)
fixup_cmp(i) ==
    IF i.left.kind = "Stack" /\ i.right.kind = "Stack"
    THEN <<Mov(i.left, register_r10), Cmp(register_r10, i.right)>>
    ELSE IF i.right.kind = "Imm"
    THEN <<Mov(Imm(i.right.value), register_r11), Cmp(i.left, register_r11)>>
    ELSE <<i>>

fixup_asm_instruction(asm_instruction) ==
    CASE asm_instruction.kind = "Mov" -> fixup_mov(asm_instruction)
      [] asm_instruction.kind = "Binary"
           /\ asm_instruction.op \in {"Add", "Sub"} ->
                fixup_add_sub(asm_instruction)
      [] asm_instruction.kind = "Binary" /\ asm_instruction.op = "Mult" ->
                fixup_mult(asm_instruction)
      [] asm_instruction.kind = "Idiv" -> fixup_idiv(asm_instruction)
      [] asm_instruction.kind = "Cmp" -> fixup_cmp(asm_instruction)
      [] OTHER -> <<asm_instruction>>

RECURSIVE instruction_fixup_pass(_)
instruction_fixup_pass(instructions) ==
    IF instructions = <<>>
    THEN <<>>
    ELSE fixup_asm_instruction(Head(instructions))
             \o instruction_fixup_pass(Tail(instructions))

-----------------------------------------------------------------------------
(* convert_instructions, one action per pass *)

\* let mut asm_instructions = instruction_conversion_pass(tacky_instructions)?;
InstructionConversionPass ==
    /\ stage = "tacky"
    /\ LET r == instruction_conversion_pass(tacky_instructions)
       IN  IF r.ok
           THEN asm_instructions' = r.value /\ stage' = "converted"
           ELSE asm_instructions' = <<>> /\ stage' = "codegen_error"
    /\ UNCHANGED <<cmm_expression, temp_counter, label_counter,
                   tacky_instructions, stack_offset, final_instructions,
                   exec_vars, front_vars>>

\* let stack_offset = pseudoregister_replacement_pass(&mut asm_instructions);
PseudoregisterReplacementPass ==
    /\ stage = "converted"
    /\ LET r == pseudoregister_replacement_pass(asm_instructions)
       IN  /\ asm_instructions' = r.instructions
           /\ stack_offset' = r.offset_counter
    /\ stage' = "replaced"
    /\ UNCHANGED <<cmm_expression, temp_counter, label_counter,
                   tacky_instructions, final_instructions, exec_vars, front_vars>>

\* let mut final_instructions = vec![stack_allocation_pass(&stack_offset)];
StackAllocationPass ==
    /\ stage = "replaced"
    /\ final_instructions' = <<stack_allocation_pass(stack_offset)>>
    /\ stage' = "allocated"
    /\ UNCHANGED <<cmm_expression, temp_counter, label_counter,
                   tacky_instructions, asm_instructions, stack_offset,
                   exec_vars, front_vars>>

\* let mut fixed_instructions = instruction_fixup_pass(&mut asm_instructions);
\* final_instructions.append(&mut fixed_instructions);
InstructionFixupPass ==
    /\ stage = "allocated"
    /\ final_instructions' =
           final_instructions \o instruction_fixup_pass(asm_instructions)
    /\ stage' = "codegen"
    /\ UNCHANGED <<cmm_expression, temp_counter, label_counter,
                   tacky_instructions, asm_instructions, stack_offset,
                   exec_vars, front_vars>>

-----------------------------------------------------------------------------
(* The code generator on arbitrary TACKY instruction lists *)

TempNames == {"tmp.0", "tmp.1", "tmp.2"}
TackyValues == {Constant(2)} \cup {Variable(n) : n \in TempNames}
LabelNames == {"and_end1"}

\* every instruction over TackyValues, any operand kind in any position
TackyInstructionSet ==
    {TackyReturn(v) : v \in TackyValues}
    \cup {TackyUnary(op, s, d) :
            op \in TackyUnaryOperator, s \in TackyValues, d \in TackyValues}
    \cup {TackyBinary(op, s1, s2, d) :
            op \in TackyBinaryOperator, s1 \in TackyValues, s2 \in TackyValues,
            d \in TackyValues}
    \cup {TackyCopy(s, d) : s \in TackyValues, d \in TackyValues}
    \cup {TackyJump(t) : t \in LabelNames}
    \cup {TackyJumpIfZero(c, t) : c \in TackyValues, t \in LabelNames}
    \cup {TackyJumpIfNotZero(c, t) : c \in TackyValues, t \in LabelNames}
    \cup {TackyLabel(l) : l \in LabelNames}

\* the instructions that the lists of up to MaxLen instructions are built
\* from: every kind of instruction, with a variable as destination
CoreVariables == {Variable("tmp.0"), Variable("tmp.1")}
CoreValues == {Constant(2)} \cup CoreVariables
CoreTackyInstructions ==
    {TackyReturn(v) : v \in CoreValues}
    \cup {TackyCopy(s, d) : s \in CoreValues, d \in CoreVariables}
    \cup {TackyUnary("Not", s, d) : s \in CoreValues, d \in CoreVariables}
    \cup {TackyBinary(op, Variable("tmp.0"), Variable("tmp.1"), Variable("tmp.2")) :
            op \in {"Subtract", "Multiply", "Remainder", "LessThan"}}
    \cup {TackyJumpIfZero(c, t) : c \in CoreValues, t \in LabelNames}
    \cup {TackyJump(t) : t \in LabelNames}
    \cup {TackyLabel(l) : l \in LabelNames}

NoExpression == [kind |-> "None"]

NoResult == [kind |-> "None"]

\* no main is running: the stage is called on its own
NotRunning == [at |-> "none"]

\* nothing has been executed, and the front end is not part of the run
NotStarted ==
    /\ pc = 0
    /\ env = <<>>
    /\ trace = <<>>
    /\ returned_value = 0
    /\ tokens = <<>>
    /\ position = 0
    /\ parse_result = NoResult
    /\ input_str = <<>>
    /\ string_stream = <<>>
    /\ token_vec = <<>>
    /\ iterations = 0
    /\ process_until = "None"
    /\ compiler_result = NoResult
    /\ output_file = [written |-> FALSE]
    /\ process = NotRunning

InitCodegen ==
    /\ cmm_expression = NoExpression
    /\ temp_counter = 0
    /\ label_counter = 0
    /\ \/ \E i \in TackyInstructionSet : tacky_instructions = <<i>>
       \/ \E n \in 0..MaxLen :
             tacky_instructions \in [1..n -> CoreTackyInstructions]
    /\ asm_instructions = <<>>
    /\ stack_offset = 0
    /\ final_instructions = <<>>
    /\ stage = "tacky"
    /\ NotStarted

NextCodegen ==
    \/ InstructionConversionPass
    \/ PseudoregisterReplacementPass
    \/ StackAllocationPass
    \/ InstructionFixupPass

SpecCodegen == InitCodegen /\ [][NextCodegen]_vars

-----------------------------------------------------------------------------
(* The pipeline from a parsed function: IR generation, then code generation *)

\* zero and a non-zero value other than 1
IntegerConstants == {IntegerConstant(0), IntegerConstant(2)}

\* the operators that nested expressions are built from
NestedUnaryOperators == {"Negate", "Not"}
NestedBinaryOperators == {"Add", "LessThan", "And", "Or"}

\* the expressions with exactly n operator nodes
RECURSIVE ExpressionsOfSize(_)
ExpressionsOfSize(n) ==
    IF n = 0
    THEN IntegerConstants
    ELSE {CmmUnary(op, e) :
            op \in NestedUnaryOperators, e \in ExpressionsOfSize(n - 1)}
         \cup UNION {
              {CmmBinary(op, l, r) :
                 op \in NestedBinaryOperators, l \in ExpressionsOfSize(k),
                 r \in ExpressionsOfSize(n - 1 - k)} : k \in 0..(n - 1)}

\* every operator applied to constants
SingleOperatorExpressions ==
    {CmmUnary(op, e) : op \in CmmUnaryOperator, e \in IntegerConstants}
    \cup {CmmBinary(op, l, r) :
            op \in CmmBinaryOperator, l \in IntegerConstants,
            r \in IntegerConstants}

\* a binary operator over two operands that are operator nodes themselves
BothOperandExpressions ==
    {CmmBinary(op, CmmUnary("Negate", IntegerConstant(2)), r) :
        op \in NestedBinaryOperators,
        r \in {CmmUnary("Not", IntegerConstant(0)),
               CmmBinary("Or", IntegerConstant(0), IntegerConstant(2))}}

Expressions ==
    SingleOperatorExpressions
    \cup BothOperandExpressions
    \cup UNION {ExpressionsOfSize(n) : n \in 0..MaxNodes}

\* let mut tacky_emitter = TackyEmitter::new();
\* let tacky_ast = tacky_emitter.convert_ast(c_ast)?;
TackyConvertAst ==
    /\ stage = "parsed"
    /\ LET r == convert_statement(cmm_expression,
                    Emitter(temp_counter, label_counter, <<>>))
       IN  /\ temp_counter' = r.emitter.temp_counter
           /\ label_counter' = r.emitter.label_counter
           /\ IF r.ok
              THEN tacky_instructions' = r.emitter.instructions
                   /\ stage' = "tacky"
              ELSE tacky_instructions' = <<>> /\ stage' = "ir_error"
    /\ UNCHANGED <<cmm_expression, asm_instructions, stack_offset,
                   final_instructions, exec_vars, front_vars>>

Init ==
    /\ cmm_expression \in Expressions
    /\ temp_counter = TackyEmitterNew.temp_counter
    /\ label_counter = TackyEmitterNew.label_counter
    /\ tacky_instructions = <<>>
    /\ asm_instructions = <<>>
    /\ stack_offset = 0
    /\ final_instructions = <<>>
    /\ stage = "parsed"
    /\ NotStarted

Next ==
    \/ TackyConvertAst
    \/ InstructionConversionPass
    \/ PseudoregisterReplacementPass
    \/ StackAllocationPass
    \/ InstructionFixupPass

Spec == Init /\ [][Next]_vars

-----------------------------------------------------------------------------
(* Execution of a TACKY function: the meaning ir_gen/tacky_ast.rs gives to
   each instruction *)

\* the names of the temporaries that occur in a TACKY instruction list
TemporariesOf(tis) ==
    LET ValuesOf(ti) ==
            CASE ti.kind = "Return" -> {ti.value}
              [] ti.kind = "Unary" -> {ti.source, ti.destination}
              [] ti.kind = "Binary" -> {ti.source1, ti.source2, ti.destination}
              [] ti.kind = "Copy" -> {ti.source, ti.destination}
              [] ti.kind \in {"JumpIfZero", "JumpIfNotZero"} -> {ti.condition}
              [] OTHER -> {}
    IN  {v.name : v \in {w \in UNION {ValuesOf(tis[k]) : k \in 1..Len(tis)} :
                            w.kind = "Variable"}}

Abs(x) == IF x < 0 THEN -x ELSE x

\* division truncating towards zero, and its remainder
quotient(a, b) ==
    IF (a < 0) = (b < 0) THEN Abs(a) \div Abs(b) ELSE -(Abs(a) \div Abs(b))
remainder(a, b) == a - b * quotient(a, b)

\* what a stack slot may hold before its first write
UninitializedValues == {0, 5}

\* TackyValue: a constant is its value, a variable is what it holds
value_of(tacky_value, environment) ==
    IF tacky_value.kind = "Constant"
    THEN tacky_value.value
    ELSE environment[tacky_value.name]

\* the operators on the values the inputs produce, all far from the i32 limits
execute_unary(operator, x) ==
    CASE operator = "Complement" -> -x - 1
      [] operator = "Negate" -> -x
      [] operator = "Not" -> IF x = 0 THEN 1 ELSE 0

Truth(b) == IF b THEN 1 ELSE 0

execute_binary(operator, a, b) ==
    CASE operator = "Add" -> a + b
      [] operator = "Subtract" -> a - b
      [] operator = "Multiply" -> a * b
      [] operator = "Divide" -> quotient(a, b)
      [] operator = "Remainder" -> remainder(a, b)
      [] operator = "Equal" -> Truth(a = b)
      [] operator = "NotEqual" -> Truth(a # b)
      [] operator = "LessThan" -> Truth(a < b)
      [] operator = "GreaterThan" -> Truth(a > b)
      [] operator = "LessThanEqual" -> Truth(a <= b)
      [] operator = "GreaterThanEqual" -> Truth(a >= b)

LabelPositions(tis) == {k \in 1..Len(tis) : tis[k].kind = "Label"}

Running(kind) ==
    /\ stage = "running"
    /\ pc \in 1..Len(tacky_instructions)
    /\ tacky_instructions[pc].kind = kind

Step == trace' = Append(trace, pc)

Frame ==
    UNCHANGED <<cmm_expression, temp_counter, label_counter,
                tacky_instructions, asm_instructions, stack_offset,
                final_instructions, front_vars>>

\* control moves to the Label instruction that carries the target's name
JumpTo(target) ==
    \E k \in LabelPositions(tacky_instructions) :
        tacky_instructions[k].label = target /\ pc' = k

\* the function is entered: no temporary has been written yet
ExecEnter ==
    /\ stage = "tacky"
    /\ \E garbage \in UninitializedValues :
          env' = [n \in TemporariesOf(tacky_instructions) |-> garbage]
    /\ pc' = 1
    /\ stage' = "running"
    /\ UNCHANGED <<trace, returned_value>>
    /\ Frame

\* Return { value }
ExecReturn ==
    /\ Running("Return")
    /\ returned_value' = value_of(tacky_instructions[pc].value, env)
    /\ stage' = "returned"
    /\ Step
    /\ UNCHANGED <<pc, env>>
    /\ Frame

\* Unary { operator, source, destination }
ExecUnary ==
    /\ Running("Unary")
    /\ LET i == tacky_instructions[pc]
       IN  /\ i.destination.kind = "Variable"
           /\ env' = [env EXCEPT ![i.destination.name] =
                         execute_unary(i.operator, value_of(i.source, env))]
    /\ pc' = pc + 1
    /\ Step
    /\ UNCHANGED <<stage, returned_value>>
    /\ Frame

\* Binary { operator, source1, source2, destination }; a division by zero
\* ends the execution
ExecBinary ==
    /\ Running("Binary")
    /\ LET i == tacky_instructions[pc]
           a == value_of(i.source1, env)
           b == value_of(i.source2, env)
       IN  /\ i.destination.kind = "Variable"
           /\ IF i.operator \in {"Divide", "Remainder"} /\ b = 0
              THEN /\ stage' = "trapped"
                   /\ UNCHANGED <<pc, env>>
              ELSE /\ env' = [env EXCEPT ![i.destination.name] =
                                 execute_binary(i.operator, a, b)]
                   /\ pc' = pc + 1
                   /\ UNCHANGED stage
    /\ Step
    /\ UNCHANGED returned_value
    /\ Frame

\* Copy { source, destination }
ExecCopy ==
    /\ Running("Copy")
    /\ LET i == tacky_instructions[pc]
       IN  /\ i.destination.kind = "Variable"
           /\ env' = [env EXCEPT ![i.destination.name] = value_of(i.source, env)]
    /\ pc' = pc + 1
    /\ Step
    /\ UNCHANGED <<stage, returned_value>>
    /\ Frame

\* Jump { target }
ExecJump ==
    /\ Running("Jump")
    /\ JumpTo(tacky_instructions[pc].target)
    /\ Step
    /\ UNCHANGED <<env, stage, returned_value>>
    /\ Frame

\* JumpIfZero { condition, target }
ExecJumpIfZero ==
    /\ Running("JumpIfZero")
    /\ LET i == tacky_instructions[pc]
       IN  IF value_of(i.condition, env) = 0
           THEN JumpTo(i.target)
           ELSE pc' = pc + 1
    /\ Step
    /\ UNCHANGED <<env, stage, returned_value>>
    /\ Frame

\* JumpIfNotZero { condition, target }
ExecJumpIfNotZero ==
    /\ Running("JumpIfNotZero")
    /\ LET i == tacky_instructions[pc]
       IN  IF value_of(i.condition, env) # 0
           THEN JumpTo(i.target)
           ELSE pc' = pc + 1
    /\ Step
    /\ UNCHANGED <<env, stage, returned_value>>
    /\ Frame

\* Label(name)
ExecLabel ==
    /\ Running("Label")
    /\ pc' = pc + 1
    /\ Step
    /\ UNCHANGED <<env, stage, returned_value>>
    /\ Frame

NextExec ==
    \/ TackyConvertAst
    \/ ExecEnter
    \/ ExecReturn
    \/ ExecUnary
    \/ ExecBinary
    \/ ExecCopy
    \/ ExecJump
    \/ ExecJumpIfZero
    \/ ExecJumpIfNotZero
    \/ ExecLabel

SpecExec == Init /\ [][NextExec]_vars

\* the generator runs and the function is entered
Start ==
    /\ stage \in {"parsed", "tacky"}
    /\ stage' \in {"tacky", "ir_error", "running"}

\* the instruction at pc is executed
Execute ==
    /\ stage = "running"
    /\ pc \in 1..Len(tacky_instructions)
    /\ trace' = Append(trace, pc)

\* an execution goes on as long as there is an instruction at pc
SpecExecFair == SpecExec /\ WF_stage(Start) /\ WF_trace(Execute)

-----------------------------------------------------------------------------
(* Tokens: lexer/tokens.rs *)

Token(kind_) == [kind |-> kind_]
TokenIdentifier(identifier) == [kind |-> "Identifier", identifier |-> identifier]
TokenConstant(value) == [kind |-> "Constant", value |-> value]

\* Token::kind
kind(token) == token.kind

BinaryOperatorTokens ==
    {"Plus", "Hyphen", "Asterisk", "ForwardSlash", "Percent", "DoubleAmpersand",
     "DoublePipe", "DoubleEqual", "ExclamationEqual", "LessThan", "GreaterThan",
     "LessThanEqual", "GreaterThanEqual"}

is_binary_operator(token) == token.kind \in BinaryOperatorTokens

\* a table in which + and - bind as tightly as * / %
get_binary_operator_precedence_flat(token) ==
    CASE token.kind \in {"Asterisk", "ForwardSlash", "Percent", "Plus",
                         "Hyphen"} -> Ok(50)
      [] token.kind \in {"LessThan", "GreaterThan", "LessThanEqual",
                         "GreaterThanEqual"} -> Ok(35)
      [] token.kind \in {"DoubleEqual", "ExclamationEqual"} -> Ok(30)
      [] token.kind = "DoubleAmpersand" -> Ok(10)
      [] token.kind = "DoublePipe" -> Ok(5)
      [] OTHER -> Err("not a binary operator")

get_binary_operator_precedence(token) ==
    CASE token.kind \in {"Asterisk", "ForwardSlash", "Percent"} -> Ok(50)
      [] token.kind \in {"Plus", "Hyphen"} -> Ok(45)
      [] token.kind \in {"LessThan", "GreaterThan", "LessThanEqual",
                         "GreaterThanEqual"} -> Ok(35)
      [] token.kind \in {"DoubleEqual", "ExclamationEqual"} -> Ok(30)
      [] token.kind = "DoubleAmpersand" -> Ok(10)
      [] token.kind = "DoublePipe" -> Ok(5)
      [] OTHER -> Err("not a binary operator")

-----------------------------------------------------------------------------
(* Lexer: lexer/mod.rs. A string is a sequence of characters; every parser
   takes the input string and returns Ok(<<remaining_str, token>>) or
   Err(error) *)

AsciiLetters ==
    {"a", "b", "c", "d", "e", "f", "g", "h", "i", "j", "k", "l", "m", "n",
     "o", "p", "q", "r", "s", "t", "u", "v", "w", "x", "y", "z",
     "A", "B", "C", "D", "E", "F", "G", "H", "I", "J", "K", "L", "M", "N",
     "O", "P", "Q", "R", "S", "T", "U", "V", "W", "X", "Y", "Z"}

DecimalDigits == <<"0", "1", "2", "3", "4", "5", "6", "7", "8", "9">>

\* [0-9]
is_decimal_digit(c) == \E k \in 1..Len(DecimalDigits) : DecimalDigits[k] = c

\* [a-zA-Z_]
is_identifier_start(c) == c \in AsciiLetters \cup {"_"}

\* letters outside ASCII that occur in the inputs
UnicodeLetters == {"é"}

\* \w of the regex crate: Unicode is on by default, so every alphabetic
\* character is a word character, not only the ASCII ones
is_word_character(c) ==
    \/ c \in AsciiLetters \cup {"_"}
    \/ is_decimal_digit(c)
    \/ c \in UnicodeLetters

\* char::is_whitespace, which str::trim_start tests
is_whitespace(c) == c \in {" ", "\t", "\n", "\r"}

\* str::trim_start
RECURSIVE trim_start(_)
trim_start(s) ==
    IF s # <<>> /\ is_whitespace(Head(s)) THEN trim_start(Tail(s)) ELSE s

\* str::strip_prefix(matched_str).unwrap()
strip_prefix(s, matched_str) == SubSeq(s, Len(matched_str) + 1, Len(s))

UnexpectedCharacter(found, expected) ==
    [kind |-> "UnexpectedCharacter", found |-> found, expected |-> expected]
NonmatchingPattern(found) == [kind |-> "NonmatchingPattern", found |-> found]
InvalidConstant(found) == [kind |-> "InvalidConstant", found |-> found]
EmptyInputString == [kind |-> "EmptyInputString"]

\* Some(<<first_char, rest_of_str>>) or None
split_first_char(s) ==
    IF s # <<>> THEN [some |-> TRUE, value |-> <<Head(s), Tail(s)>>]
    ELSE [some |-> FALSE]

parse_character(input_str_, target_char) ==
    IF input_str_ = <<>> THEN Err(EmptyInputString)
    ELSE LET split == split_first_char(input_str_).value
         IN  IF split[1] = target_char THEN Ok(<<split[2], split[1]>>)
             ELSE Err(UnexpectedCharacter(split[1], target_char))

\* the match every single-character parser makes on parse_character's result
character_token(parsed_char, token) ==
    IF parsed_char.ok THEN Ok(<<parsed_char.value[1], token>>) ELSE parsed_char

parse_semicolon(input_str_) ==
    character_token(parse_character(input_str_, ";"), Token("Semicolon"))

parse_open_brace(input_str_) ==
    character_token(parse_character(input_str_, "{"), Token("OpenBrace"))

parse_close_brace(input_str_) ==
    character_token(parse_character(input_str_, "}"), Token("CloseBrace"))

parse_open_paren(input_str_) ==
    character_token(parse_character(input_str_, "("), Token("OpenParen"))

parse_close_paren(input_str_) ==
    character_token(parse_character(input_str_, ")"), Token("CloseParen"))

\* the length of the longest prefix of s whose characters all satisfy
\* is_member: what a greedy * or + consumes
longest_run(s, is_member(_)) ==
    CHOOSE n \in 0..Len(s) :
        /\ \A k \in 1..n : is_member(s[k])
        /\ n = Len(s) \/ ~is_member(s[n + 1])

\* \b after the first n characters of s (n >= 1): exactly one of the
\* characters on the two sides is a word character
word_boundary(s, n) ==
    is_word_character(s[n]) # (n < Len(s) /\ is_word_character(s[n + 1]))

\* ^[a-zA-Z_]\w*\b : the matched text, or <<>> when there is no match.
\* The greedy \w* stops where the word characters stop, which is a boundary.
identifier_pattern(s) ==
    IF s # <<>> /\ is_identifier_start(s[1])
    THEN SubSeq(s, 1, longest_run(s, is_word_character))
    ELSE <<>>

\* ^[0-9]+\b : the matched text, or <<>> when there is no match. A shorter
\* run of digits ends between two digits, which is no boundary, so the
\* pattern matches the whole run or nothing.
constant_pattern(s) ==
    LET n == longest_run(s, is_decimal_digit)
    IN  IF n >= 1 /\ word_boundary(s, n) THEN SubSeq(s, 1, n) ELSE <<>>

Keyword(word) ==
    CASE word = <<"i", "n", "t">> -> Token("IntKeyword")
      [] word = <<"v", "o", "i", "d">> -> Token("VoidKeyword")
      [] word = <<"r", "e", "t", "u", "r", "n">> -> Token("ReturnKeyword")
      [] OTHER -> TokenIdentifier(word)

parse_identifier_or_keyword(input_str_) ==
    LET matched_str == identifier_pattern(input_str_)
    IN  IF matched_str # <<>>
        THEN Ok(<<strip_prefix(input_str_, matched_str), Keyword(matched_str)>>)
        ELSE Err(NonmatchingPattern(input_str_))

I32Max == 2147483647

digit_value(c) == (CHOOSE k \in 1..Len(DecimalDigits) : DecimalDigits[k] = c) - 1

\* a let binding: body applied to the value, which is computed once
let_value(value, body(_)) == CHOOSE result \in {body(v) : v \in {value}} : TRUE

\* str::parse::<i32> on a string of decimal digits, from the k-th digit on
\* with the value of the digits before it: Ok(value), or an error when the
\* value exceeds i32::MAX
RECURSIVE parse_i32(_, _, _)
parse_i32(digits, k, accumulated) ==
    IF k > Len(digits) THEN Ok(accumulated)
    ELSE let_value(accumulated, LAMBDA a :
            IF a > (I32Max - digit_value(digits[k])) \div 10
            THEN Err("number too large to fit in target type")
            ELSE parse_i32(digits, k + 1, a * 10 + digit_value(digits[k])))

parse_constant(input_str_) ==
    LET matched_str == constant_pattern(input_str_)
    IN  IF matched_str # <<>>
        THEN LET parsed_int == parse_i32(matched_str, 1, 0)
             IN  IF parsed_int.ok
                 THEN Ok(<<strip_prefix(input_str_, matched_str),
                           TokenConstant(parsed_int.value)>>)
                 ELSE Err(InvalidConstant(matched_str))
        ELSE Err(NonmatchingPattern(input_str_))

\* the parsers vector of tokenize, in its order
parsers ==
    <<"parse_identifier_or_keyword", "parse_constant", "parse_semicolon",
      "parse_open_brace", "parse_close_brace", "parse_open_paren",
      "parse_close_paren">>

\* parser(&string_stream) for the parser of the given name
call_parser(parser, string_stream_) ==
    CASE parser = "parse_identifier_or_keyword" ->
            parse_identifier_or_keyword(string_stream_)
      [] parser = "parse_constant" -> parse_constant(string_stream_)
      [] parser = "parse_semicolon" -> parse_semicolon(string_stream_)
      [] parser = "parse_open_brace" -> parse_open_brace(string_stream_)
      [] parser = "parse_close_brace" -> parse_close_brace(string_stream_)
      [] parser = "parse_open_paren" -> parse_open_paren(string_stream_)
      [] parser = "parse_close_paren" -> parse_close_paren(string_stream_)

\* one pass of the for loop of tokenize: a parser that matches pushes its
\* token and replaces the stream, a parser that fails changes nothing
try_parser(parser, state) ==
    LET result == call_parser(parser, state.string_stream)
    IN  IF result.ok
        THEN [string_stream |-> result.value[1],
              token_vec |-> Append(state.token_vec, result.value[2])]
        ELSE state

\* the for loop of tokenize from the k-th parser on; it goes on with the
\* next parser whether the parser matched or not
RECURSIVE for_parsers(_, _)
for_parsers(k, state) ==
    IF k > Len(parsers) THEN state
    ELSE for_parsers(k + 1,
            let_value(state, LAMBDA st : try_parser(parsers[k], st)))

-----------------------------------------------------------------------------
(* Parser: parser/mod.rs. Every method takes the token vector and the
   position and returns its Result together with the position it leaves *)

Parsed(value, position_) ==
    [ok |-> TRUE, value |-> value, position |-> position_]
Failed(error, position_) ==
    [ok |-> FALSE, error |-> error, position |-> position_]

UnexpectedEndOfInput == [kind |-> "UnexpectedEndOfInput"]
UnexpectedToken(expected, actual) ==
    [kind |-> "UnexpectedToken", expected |-> expected, actual |-> actual]
UnexpectedTrailingTokens(found) ==
    [kind |-> "UnexpectedTrailingTokens", found |-> found]
One(token_type) == [kind |-> "One", types |-> <<token_type>>]
Many(token_types) == [kind |-> "Many", types |-> token_types]

CmmProgram(function) == [kind |-> "Program", function |-> function]
CmmFunction(identifier, body) ==
    [kind |-> "Function", identifier |-> identifier, body |-> body]
CmmReturn(expression) == [kind |-> "Return", expression |-> expression]

\* a consume_token whose bound test is > instead of >=: at the end of the
\* tokens the index is out of bounds
consume_token_off_by_one(tokens_, position_) ==
    IF position_ > Len(tokens_)
    THEN Failed(UnexpectedEndOfInput, position_)
    ELSE IF position_ = Len(tokens_)
         THEN Failed([kind |-> "IndexOutOfBounds"], position_)
         ELSE Parsed(tokens_[position_ + 1], position_ + 1)

\* position is the number of tokens consumed; tokens[position + 1] is next
consume_token(tokens_, position_) ==
    IF position_ >= Len(tokens_)
    THEN Failed(UnexpectedEndOfInput, position_)
    ELSE Parsed(tokens_[position_ + 1], position_ + 1)

\* a peek_token that reports the last token again at the end of the tokens
peek_token_last_again(tokens_, position_) ==
    IF position_ >= Len(tokens_)
    THEN IF Len(tokens_) = 0
         THEN Failed(UnexpectedEndOfInput, position_)
         ELSE Parsed(tokens_[Len(tokens_)], position_)
    ELSE Parsed(tokens_[position_ + 1], position_)

peek_token(tokens_, position_) ==
    IF position_ >= Len(tokens_)
    THEN Failed(UnexpectedEndOfInput, position_)
    ELSE Parsed(tokens_[position_ + 1], position_)

expect_token(tokens_, position_, expected_type) ==
    LET actual == consume_token(tokens_, position_)
    IN  IF ~actual.ok THEN actual
        ELSE IF kind(actual.value) # expected_type
             THEN Failed(UnexpectedToken(One(expected_type), kind(actual.value)),
                         actual.position)
             ELSE Parsed(<<>>, actual.position)

parse_identifier(tokens_, position_) ==
    LET token == consume_token(tokens_, position_)
    IN  IF ~token.ok THEN token
        ELSE IF token.value.kind = "Identifier"
             THEN Parsed(token.value.identifier, token.position)
             ELSE Failed(UnexpectedToken(One("Identifier"), kind(token.value)),
                         token.position)

parse_unary_operator(tokens_, position_) ==
    LET token == consume_token(tokens_, position_)
    IN  IF ~token.ok THEN token
        ELSE CASE token.value.kind = "Hyphen" ->
                    Parsed("Negate", token.position)
               [] token.value.kind = "Tilde" ->
                    Parsed("Complement", token.position)
               [] token.value.kind = "ExclamationMark" ->
                    Parsed("Not", token.position)
               [] OTHER ->
                    Failed(UnexpectedToken(
                               Many(<<"Hyphen", "Tilde", "ExclamationMark">>),
                               kind(token.value)),
                           token.position)

parse_binary_operator(tokens_, position_) ==
    LET token == consume_token(tokens_, position_)
    IN  IF ~token.ok THEN token
        ELSE CASE token.value.kind = "Plus" -> Parsed("Add", token.position)
               [] token.value.kind = "Hyphen" ->
                    Parsed("Subtract", token.position)
               [] token.value.kind = "Asterisk" ->
                    Parsed("Multiply", token.position)
               [] token.value.kind = "ForwardSlash" ->
                    Parsed("Divide", token.position)
               [] token.value.kind = "Percent" ->
                    Parsed("Remainder", token.position)
               [] token.value.kind = "DoubleAmpersand" ->
                    Parsed("And", token.position)
               [] token.value.kind = "DoublePipe" ->
                    Parsed("Or", token.position)
               [] token.value.kind = "DoubleEqual" ->
                    Parsed("Equal", token.position)
               [] token.value.kind = "ExclamationEqual" ->
                    Parsed("NotEqual", token.position)
               [] token.value.kind = "LessThan" ->
                    Parsed("LessThan", token.position)
               [] token.value.kind = "GreaterThan" ->
                    Parsed("GreaterThan", token.position)
               [] token.value.kind = "LessThanEqual" ->
                    Parsed("LessThanEqual", token.position)
               [] token.value.kind = "GreaterThanEqual" ->
                    Parsed("GreaterThanEqual", token.position)
               [] OTHER ->
                    Failed(UnexpectedToken(
                               Many(<<"Plus", "Hyphen", "Asterisk",
                                      "ForwardSlash", "Percent",
                                      "DoubleAmpersand", "DoublePipe",
                                      "DoubleEqual", "ExclamationEqual",
                                      "LessThan", "GreaterThan",
                                      "LessThanEqual", "GreaterThanEqual">>),
                               kind(token.value)),
                           token.position)

parse_constant_integer_factor(tokens_, position_) ==
    LET token == consume_token(tokens_, position_)
    IN  IF ~token.ok THEN token
        ELSE IF token.value.kind = "Constant"
             THEN Parsed(IntegerConstant(token.value.value), token.position)
             ELSE Failed(UnexpectedToken(One("Constant"), kind(token.value)),
                         token.position)

\* the token kinds that parse_factor hands to parse_unary_factor
UnaryFactorTokens == {"Hyphen", "Tilde"}

\* parse_factor, parse_unary_factor, parse_parenthesized_expression,
\* parse_expression and the loop of parse_expression call one another; rule
\* names the method entered and argument holds what it is entered with:
\* min_precedence for "parse_expression", and min_precedence, left and
\* next_token for "loop"
RECURSIVE parse(_, _, _, _)
parse(rule, tokens_, position_, argument) ==
    CASE rule = "parse_factor" ->
            LET token == peek_token(tokens_, position_)
            IN  IF ~token.ok THEN token
                ELSE CASE token.value.kind = "Constant" ->
                            parse_constant_integer_factor(tokens_, position_)
                       [] token.value.kind \in UnaryFactorTokens ->
                            parse("parse_unary_factor", tokens_, position_,
                                  argument)
                       [] token.value.kind = "OpenParen" ->
                            parse("parse_parenthesized_expression", tokens_,
                                  position_, argument)
                       [] OTHER ->
                            Failed(UnexpectedToken(
                                       Many(<<"Constant", "Hyphen", "Tilde",
                                              "OpenParen">>),
                                       kind(token.value)),
                                   position_)
      [] rule = "parse_unary_factor" ->
            LET operator == parse_unary_operator(tokens_, position_)
            IN  IF ~operator.ok THEN operator
                ELSE LET inner_factor ==
                             parse("parse_factor", tokens_, operator.position,
                                   argument)
                     IN  IF ~inner_factor.ok THEN inner_factor
                         ELSE Parsed(CmmUnary(operator.value,
                                              inner_factor.value),
                                     inner_factor.position)
      [] rule = "parse_parenthesized_expression" ->
            LET open_paren == expect_token(tokens_, position_, "OpenParen")
            IN  IF ~open_paren.ok THEN open_paren
                ELSE LET expression ==
                             parse("parse_expression", tokens_,
                                   open_paren.position, 0)
                     IN  IF ~expression.ok THEN expression
                         ELSE LET close_paren ==
                                      expect_token(tokens_, expression.position,
                                                   "CloseParen")
                              IN  IF ~close_paren.ok THEN close_paren
                                  ELSE Parsed(expression.value,
                                              close_paren.position)
      [] rule = "parse_expression" ->
            LET left == parse("parse_factor", tokens_, position_, argument)
            IN  IF ~left.ok THEN left
                ELSE LET next_token == peek_token(tokens_, left.position)
                     IN  IF ~next_token.ok THEN next_token
                         ELSE parse("loop", tokens_, left.position,
                                    [min_precedence |-> argument,
                                     left |-> left.value,
                                     next_token |-> next_token.value])
      [] rule = "loop" ->
            IF ~is_binary_operator(argument.next_token)
            THEN Parsed(argument.left, position_)
            ELSE LET precedence ==
                         get_binary_operator_precedence(argument.next_token)
                     next_token_precedence ==
                         IF precedence.ok THEN precedence.value ELSE -1
                 IN  IF next_token_precedence < argument.min_precedence
                     THEN Parsed(argument.left, position_)
                     ELSE LET operator ==
                                  parse_binary_operator(tokens_, position_)
                          IN  IF ~operator.ok THEN operator
                              ELSE LET right ==
                                           parse("parse_expression", tokens_,
                                                 operator.position,
                                                 next_token_precedence + 1)
                                   IN  IF ~right.ok THEN right
                                       ELSE LET peeked ==
                                                    peek_token(tokens_,
                                                               right.position)
                                            IN  IF ~peeked.ok THEN peeked
                                                ELSE parse("loop", tokens_,
                                                         right.position,
                                                         [min_precedence |->
                                                            argument.min_precedence,
                                                          left |-> CmmBinary(
                                                            operator.value,
                                                            argument.left,
                                                            right.value),
                                                          next_token |->
                                                            peeked.value])

parse_factor(tokens_, position_) == parse("parse_factor", tokens_, position_, 0)

parse_expression(tokens_, position_, min_precedence) ==
    parse("parse_expression", tokens_, position_, min_precedence)

\* the ? operator: an Err is returned at once, an Ok value goes on to next
and_then(result, next(_)) == IF ~result.ok THEN result ELSE next(result)

parse_statement(tokens_, position_) ==
    and_then(expect_token(tokens_, position_, "ReturnKeyword"),
      LAMBDA return_ :
    and_then(parse_expression(tokens_, return_.position, 0),
      LAMBDA expression :
    and_then(expect_token(tokens_, expression.position, "Semicolon"),
      LAMBDA semicolon :
    Parsed(CmmReturn(expression.value), semicolon.position))))

parse_function(tokens_, position_) ==
    and_then(expect_token(tokens_, position_, "IntKeyword"),
      LAMBDA int :
    and_then(parse_identifier(tokens_, int.position),
      LAMBDA identifier :
    and_then(expect_token(tokens_, identifier.position, "OpenParen"),
      LAMBDA open_paren :
    and_then(expect_token(tokens_, open_paren.position, "VoidKeyword"),
      LAMBDA void :
    and_then(expect_token(tokens_, void.position, "CloseParen"),
      LAMBDA close_paren :
    and_then(expect_token(tokens_, close_paren.position, "OpenBrace"),
      LAMBDA open_brace :
    and_then(parse_statement(tokens_, open_brace.position),
      LAMBDA statement :
    and_then(expect_token(tokens_, statement.position, "CloseBrace"),
      LAMBDA close_brace :
    Parsed(CmmFunction(identifier.value, statement.value),
           close_brace.position)))))))))

\* a parse_ast that reports the trailing tokens from one token too early
parse_ast_found_from_last(tokens_, position_) ==
    and_then(parse_function(tokens_, position_),
      LAMBDA function :
        IF function.position < Len(tokens_)
        THEN Failed(UnexpectedTrailingTokens(
                        SubSeq(tokens_, function.position, Len(tokens_))),
                    function.position)
        ELSE Parsed(CmmProgram(function.value), function.position))

parse_ast(tokens_, position_) ==
    and_then(parse_function(tokens_, position_),
      LAMBDA function :
        IF function.position < Len(tokens_)
        THEN Failed(UnexpectedTrailingTokens(
                        SubSeq(tokens_, function.position + 1, Len(tokens_))),
                    function.position)
        ELSE Parsed(CmmProgram(function.value), function.position))

\* let mut parser = Parser::new(tokens); let cmm_ast = parser.parse_ast()?;
ParseAst ==
    /\ stage = "lexed"
    /\ LET r == parse_ast(tokens, position)
       IN  /\ position' = r.position
           /\ IF r.ok
              THEN /\ parse_result' = Ok(r.value)
                   /\ cmm_expression' = r.value.function.body.expression
                   /\ stage' = "parse_ok"
              ELSE /\ parse_result' = Err(r.error)
                   /\ cmm_expression' = cmm_expression
                   /\ stage' = "parse_error"
    /\ UNCHANGED <<temp_counter, label_counter, tacky_instructions,
                   asm_instructions, stack_offset, final_instructions,
                   exec_vars, tokens, lexer_vars, driver_vars>>

-----------------------------------------------------------------------------
(* The parser on token lists *)

\* factors: a constant, a negated constant, a parenthesised ||
PlainFactors ==
    {<<TokenConstant(1)>>,
     <<Token("Hyphen"), TokenConstant(2)>>,
     <<Token("OpenParen"), TokenConstant(1), Token("DoublePipe"),
       TokenConstant(2), Token("CloseParen")>>}

\* each unary operator token in front of a plain factor
UnaryOperatorTokens == {"Hyphen", "Tilde", "ExclamationMark"}
PrefixedFactors ==
    {<<Token(u)>> \o f : u \in UnaryOperatorTokens, f \in PlainFactors}

\* a op b for every binary operator
OneOperatorTokens ==
    {a \o <<Token(op)>> \o b :
        a \in PlainFactors, op \in BinaryOperatorTokens, b \in PlainFactors}

\* a op1 b op2 c for every pair of binary operators
TwoOperatorTokens ==
    {a \o <<Token(op1)>> \o b \o <<Token(op2)>> \o c :
        a \in PlainFactors, op1 \in BinaryOperatorTokens, b \in PlainFactors,
        op2 \in BinaryOperatorTokens, c \in PlainFactors}

\* int main(void) { return <expression>; }
FunctionTokens(expression_tokens) ==
    <<Token("IntKeyword"), TokenIdentifier("main"), Token("OpenParen"),
      Token("VoidKeyword"), Token("CloseParen"), Token("OpenBrace"),
      Token("ReturnKeyword")>>
    \o expression_tokens \o <<Token("Semicolon"), Token("CloseBrace")>>

ShortFunctions ==
    {FunctionTokens(e) :
        e \in PlainFactors \cup PrefixedFactors \cup OneOperatorTokens}

CompleteFunctions ==
    ShortFunctions \cup {FunctionTokens(e) : e \in TwoOperatorTokens}

\* the complete functions that parse_ast accepts
AcceptedFunctions == {t \in CompleteFunctions : parse_ast(t, 0).ok}

ProperPrefixes(token_lists) ==
    UNION {{SubSeq(t, 1, n) : n \in 0..(Len(t) - 1)} : t \in token_lists}

TrailingTokens ==
    {Token("Semicolon"), Token("CloseBrace"), Token("IntKeyword"),
     TokenConstant(1)}

\* a short function followed by 1..MaxTrailing further tokens
FunctionsWithTrailingTokens ==
    {t \o trailing :
        t \in ShortFunctions,
        trailing \in UNION {[1..k -> TrailingTokens] : k \in 1..MaxTrailing}}

TokenLists ==
    CompleteFunctions
    \cup ProperPrefixes(CompleteFunctions)
    \cup FunctionsWithTrailingTokens

InitParser ==
    /\ cmm_expression = NoExpression
    /\ temp_counter = 0
    /\ label_counter = 0
    /\ tacky_instructions = <<>>
    /\ asm_instructions = <<>>
    /\ stack_offset = 0
    /\ final_instructions = <<>>
    /\ pc = 0
    /\ env = <<>>
    /\ trace = <<>>
    /\ returned_value = 0
    /\ tokens \in TokenLists
    /\ position = 0
    /\ parse_result = NoResult
    /\ input_str = <<>>
    /\ string_stream = <<>>
    /\ token_vec = <<>>
    /\ iterations = 0
    /\ process_until = "None"
    /\ compiler_result = NoResult
    /\ output_file = [written |-> FALSE]
    /\ process = NotRunning
    /\ stage = "lexed"

NextParser == ParseAst

SpecParser == InitParser /\ [][NextParser]_vars

-----------------------------------------------------------------------------
(* tokenize, one pass of its loop at a time. The loop has no bound of its
   own; iterations counts its passes modulo IterationsModulus, so that a loop
   that never ends is a cycle of states *)

IterationsModulus == 4

TokenizeIteration ==
    /\ stage = "lexing"
    /\ iterations' = (iterations + 1) % IterationsModulus
    /\ LET trimmed == trim_start(string_stream)
       IN  IF trimmed = <<>>
           THEN \* break; token_vec is returned
                /\ string_stream' = trimmed
                /\ tokens' = token_vec
                /\ stage' = "lexed"
                /\ UNCHANGED token_vec
           ELSE LET after == for_parsers(1, [string_stream |-> trimmed,
                                                token_vec |-> token_vec])
                IN  /\ string_stream' = after.string_stream
                    /\ token_vec' = after.token_vec
                    /\ UNCHANGED <<tokens, stage>>
    /\ UNCHANGED <<cmm_expression, temp_counter, label_counter,
                   tacky_instructions, asm_instructions, stack_offset,
                   final_instructions, exec_vars, position, parse_result,
                   input_str, driver_vars>>

-----------------------------------------------------------------------------
(* Source texts for the lexer *)

MaxLexemes == 2

KeywordTexts ==
    {<<"i", "n", "t">>, <<"v", "o", "i", "d">>,
     <<"r", "e", "t", "u", "r", "n">>}

WordTexts ==
    KeywordTexts
    \cup {<<"i", "n", "t", "e", "g", "e", "r">>,
          <<"r", "e", "t", "u", "r", "n", "2">>,
          <<"m", "a", "i", "n">>, <<"_", "x">>, <<"I", "n", "t">>,
          <<"i", "n">>, <<"i", "n", "t", "é">>, <<"x", "é", "y">>}

ConstantTexts ==
    {<<"1">>, <<"0", "0", "7">>, <<"4", "2">>,
     <<"2", "1", "4", "7", "4", "8", "3", "6", "4", "7">>,
     <<"2", "1", "4", "7", "4", "8", "3", "6", "4", "8">>,
     <<"1", "a">>, <<"2", "_">>}

PunctuationTexts == {<<";">>, <<"{">>, <<"}">>, <<"(">>, <<")">>}

\* the operators of Token with the text of each
OperatorTokens ==
    {[text |-> <<"~">>, kind |-> "Tilde"],
     [text |-> <<"-">>, kind |-> "Hyphen"],
     [text |-> <<"-", "-">>, kind |-> "DoubleHyphen"],
     [text |-> <<"+">>, kind |-> "Plus"],
     [text |-> <<"*">>, kind |-> "Asterisk"],
     [text |-> <<"/">>, kind |-> "ForwardSlash"],
     [text |-> <<"%">>, kind |-> "Percent"],
     [text |-> <<"!">>, kind |-> "ExclamationMark"],
     [text |-> <<"&", "&">>, kind |-> "DoubleAmpersand"],
     [text |-> <<"|", "|">>, kind |-> "DoublePipe"],
     [text |-> <<"=", "=">>, kind |-> "DoubleEqual"],
     [text |-> <<"!", "=">>, kind |-> "ExclamationEqual"],
     [text |-> <<"<">>, kind |-> "LessThan"],
     [text |-> <<">">>, kind |-> "GreaterThan"],
     [text |-> <<"<", "=">>, kind |-> "LessThanEqual"],
     [text |-> <<">", "=">>, kind |-> "GreaterThanEqual"]}

OperatorTexts == {operator.text : operator \in OperatorTokens}

\* characters that begin no token
UnknownTexts == {<<"@">>, <<"#">>}

Lexemes ==
    WordTexts \cup ConstantTexts \cup PunctuationTexts \cup OperatorTexts
    \cup UnknownTexts

Separators == {<<>>, <<" ">>, <<"\n", " ">>}

\* the lexemes that are put together into longer texts
CombinedLexemes ==
    {<<"i", "n", "t">>, <<"x">>, <<"1">>, <<";">>, <<"(">>, <<"-">>,
     <<"-", "-">>, <<"<", "=">>, <<"@">>,
     <<"2", "1", "4", "7", "4", "8", "3", "6", "4", "8">>}

RECURSIVE Texts(_)
Texts(n) ==
    IF n = 0 THEN {<<>>}
    ELSE {lexeme \o separator \o rest :
            lexeme \in CombinedLexemes, separator \in Separators,
            rest \in Texts(n - 1)}

\* int main(void) { return 1; }, the example of tokenize's documentation
DocumentedSource ==
    <<"i", "n", "t", " ", "m", "a", "i", "n", "(", "v", "o", "i", "d", ")",
      " ", "{", " ", "r", "e", "t", "u", "r", "n", " ", "1", ";", " ", "}">>

Sources ==
    {leading \o lexeme \o separator :
        leading \in {<<>>, <<" ">>}, lexeme \in Lexemes,
        separator \in Separators}
    \cup UNION {Texts(n) : n \in 0..MaxLexemes}
    \cup {DocumentedSource}

InitLexer ==
    /\ cmm_expression = NoExpression
    /\ temp_counter = 0
    /\ label_counter = 0
    /\ tacky_instructions = <<>>
    /\ asm_instructions = <<>>
    /\ stack_offset = 0
    /\ final_instructions = <<>>
    /\ pc = 0
    /\ env = <<>>
    /\ trace = <<>>
    /\ returned_value = 0
    /\ tokens = <<>>
    /\ position = 0
    /\ parse_result = NoResult
    /\ input_str \in Sources
    /\ string_stream = input_str
    /\ token_vec = <<>>
    /\ iterations = 0
    /\ process_until = "None"
    /\ compiler_result = NoResult
    /\ output_file = [written |-> FALSE]
    /\ process = NotRunning
    /\ stage = "lexing"

NextLexer == TokenizeIteration

\* a pass of the loop of tokenize by its guard and its counter alone: the
\* steps of TokenizeIteration are the steps of the system that satisfy it
TokenizePass ==
    /\ stage = "lexing"
    /\ iterations' = (iterations + 1) % IterationsModulus

\* the loop of tokenize keeps running while it can
SpecLexer == InitLexer /\ [][NextLexer]_vars /\ WF_iterations(TokenizePass)

-----------------------------------------------------------------------------
(* Code emission: code_emission/mod.rs. The emitted text is the sequence of
   its lines; each line stands for the line and the "\n" that ends it *)

wrap_label(label) == <<label \o ":">>

wrap_instruction(instruction) == <<"\t" \o instruction>>

transform_condition_code(condition_code) ==
    CASE condition_code = "E" -> "e"
      [] condition_code = "NE" -> "ne"
      [] condition_code = "G" -> "g"
      [] condition_code = "L" -> "l"
      [] condition_code = "GE" -> "ge"
      [] condition_code = "LE" -> "le"

format_immediate_value(value) == "$" \o ToString(value)

format_stack_offset(offset) == ToString(offset) \o "(%rbp)"

format_register(register, use_1byte_representation) ==
    CASE register = "AX" ->
            IF use_1byte_representation THEN "%al" ELSE "%eax"
      [] register = "DX" ->
            IF use_1byte_representation THEN "%dl" ELSE "%edx"
      [] register = "R10" ->
            IF use_1byte_representation THEN "%r10b" ELSE "%r10d"
      [] register = "R11" ->
            IF use_1byte_representation THEN "%r11b" ELSE "%r11d"

\* a Pseudo operand makes format_operand panic
format_operand(operand, use_1byte_representation) ==
    CASE operand.kind = "Imm" -> format_immediate_value(operand.value)
      [] operand.kind = "Register" ->
            format_register(operand.reg, use_1byte_representation)
      [] operand.kind = "Stack" -> format_stack_offset(operand.offset)

format_unary_operator(op) ==
    CASE op = "Neg" -> "negl"
      [] op = "Not" -> "notl"

format_binary_operator(op) ==
    CASE op = "Add" -> "addl"
      [] op = "Sub" -> "subl"
      [] op = "Mult" -> "imull"

format_instruction(instruction) ==
    LET i == instruction
    IN  CASE i.kind = "Mov" ->
                wrap_instruction("movl " \o format_operand(i.source, FALSE)
                                 \o ", " \o format_operand(i.destination, FALSE))
          [] i.kind = "Unary" ->
                wrap_instruction(format_unary_operator(i.op) \o " "
                                 \o format_operand(i.operand, FALSE))
          [] i.kind = "Binary" ->
                wrap_instruction(format_binary_operator(i.op) \o " "
                                 \o format_operand(i.source, FALSE) \o ", "
                                 \o format_operand(i.destination, FALSE))
          [] i.kind = "Cmp" ->
                wrap_instruction("cmpl " \o format_operand(i.left, FALSE)
                                 \o ", " \o format_operand(i.right, FALSE))
          [] i.kind = "Idiv" ->
                wrap_instruction("idivl " \o format_operand(i.operand, FALSE))
          [] i.kind = "AllocateStack" ->
                wrap_instruction("subq $" \o ToString(i.stack_offset)
                                 \o ", %rsp")
          [] i.kind = "Cdq" -> wrap_instruction("cdq")
          [] i.kind = "Jmp" -> wrap_instruction("jmp L" \o i.label)
          [] i.kind = "JmpCC" ->
                wrap_instruction("j" \o transform_condition_code(i.condition)
                                 \o " L" \o i.label)
          [] i.kind = "SetCC" ->
                wrap_instruction("set" \o transform_condition_code(i.condition)
                                 \o " " \o format_operand(i.operand, TRUE))
          [] i.kind = "Label" -> wrap_label("L" \o i.label)
          [] i.kind = "Ret" ->
                wrap_instruction("movq %rbp, %rsp")
                \o wrap_instruction("popq %rbp") \o wrap_instruction("ret")

\* the for loop of emit_function
RECURSIVE format_instructions(_)
format_instructions(instructions) ==
    IF instructions = <<>> THEN <<>>
    ELSE format_instruction(Head(instructions))
         \o format_instructions(Tail(instructions))

emit_function(identifier, instructions) ==
    LET asm_identifier == "_" \o identifier
    IN  wrap_instruction(".globl " \o asm_identifier)
        \o wrap_label(asm_identifier)
        \o wrap_instruction("pushq %rbp")
        \o wrap_instruction("movq %rsp, %rbp")
        \o format_instructions(instructions)

emit_assembly(identifier, instructions) ==
    emit_function(identifier, instructions)

-----------------------------------------------------------------------------
(* run_cmm_compiler: compiler/mod.rs, one action per statement. stage is the
   position in the function; "done" is after its return *)

\* the Stage values of process_until, "None" for None
Stages == {"Lex", "Parse", "Tacky", "Codegen"}

CompilerResult(variant, value) == [ok |-> TRUE, kind |-> variant, value |-> value]

\* the String of a sequence of characters
RECURSIVE string_of(_)
string_of(characters) ==
    IF characters = <<>> THEN ""
    ELSE Head(characters) \o string_of(Tail(characters))

\* what the three statements before a return leave alone
DriverFrame ==
    UNCHANGED <<cmm_expression, temp_counter, label_counter,
                tacky_instructions, asm_instructions, stack_offset,
                final_instructions, exec_vars, tokens, position, parse_result,
                lexer_vars, process_until, process>>

\* if let Some(Stage::Lex) = process_until { return Ok(Lexer(tokens)); }
ReturnLexer ==
    /\ stage = "lexed"
    /\ process_until = "Lex"
    /\ compiler_result' = CompilerResult("Lexer", tokens)
    /\ stage' = "done"
    /\ UNCHANGED output_file
    /\ DriverFrame

\* let mut parser = Parser::new(tokens); let c_ast = parser.parse_ast()
ParseTokens ==
    /\ process_until # "Lex"
    /\ ParseAst

\* the ? after parse_ast(), convert_ast() and code_gen::convert_ast(): the
\* error of the stage is returned
ReturnError ==
    /\ stage \in {"parse_error", "ir_error", "codegen_error"}
    /\ compiler_result' =
          Err(CASE stage = "parse_error" -> parse_result.error
                [] stage = "ir_error" ->
                      convert_statement(cmm_expression, TackyEmitterNew).error
                [] stage = "codegen_error" ->
                      instruction_conversion_pass(tacky_instructions).error)
    /\ stage' = "done"
    /\ UNCHANGED output_file
    /\ DriverFrame

\* if let Some(Stage::Parse) = process_until { return Ok(Parser(c_ast)); }
ReturnParser ==
    /\ stage = "parse_ok"
    /\ process_until = "Parse"
    /\ compiler_result' = CompilerResult("Parser", parse_result.value)
    /\ stage' = "done"
    /\ UNCHANGED output_file
    /\ DriverFrame

\* a driver without the test of Stage::Parse
NewTackyEmitterUntested ==
    /\ stage = "parse_ok"
    /\ temp_counter' = TackyEmitterNew.temp_counter
    /\ label_counter' = TackyEmitterNew.label_counter
    /\ stage' = "parsed"
    /\ UNCHANGED <<cmm_expression, tacky_instructions, asm_instructions,
                   stack_offset, final_instructions, exec_vars, front_vars>>

\* let mut tacky_emitter = ir_gen::TackyEmitter::new(); after the test of
\* Stage::Parse
NewTackyEmitter ==
    /\ stage = "parse_ok"
    /\ process_until # "Parse"
    /\ temp_counter' = TackyEmitterNew.temp_counter
    /\ label_counter' = TackyEmitterNew.label_counter
    /\ stage' = "parsed"
    /\ UNCHANGED <<cmm_expression, tacky_instructions, asm_instructions,
                   stack_offset, final_instructions, exec_vars, front_vars>>

\* if let Some(Stage::Tacky) = process_until { return Ok(Tacky(tacky_ast)); }
ReturnTacky ==
    /\ stage = "tacky"
    /\ process_until = "Tacky"
    /\ compiler_result' = CompilerResult("Tacky", tacky_instructions)
    /\ stage' = "done"
    /\ UNCHANGED output_file
    /\ DriverFrame

\* let assembly_ast = code_gen::convert_ast(tacky_ast)
CodeGenConvertAst ==
    \/ process_until # "Tacky" /\ InstructionConversionPass
    \/ PseudoregisterReplacementPass
    \/ StackAllocationPass
    \/ InstructionFixupPass

\* if let Some(Stage::Codegen) = process_until { return Ok(Codegen(..)); }
ReturnCodegen ==
    /\ stage = "codegen"
    /\ process_until = "Codegen"
    /\ compiler_result' = CompilerResult("Codegen", final_instructions)
    /\ stage' = "done"
    /\ UNCHANGED output_file
    /\ DriverFrame

NotWritten == [written |-> FALSE]
Written(contents) == [written |-> TRUE, contents |-> contents]

\* let assembly_code = code_emission::emit_assembly(&assembly_ast);
\* let _ = std::fs::write(output_path, assembly_code.clone());
\* Ok(CompilerResult::Final(assembly_code))
\* The write may fail, and its result is dropped.
EmitAssembly ==
    /\ stage = "codegen"
    /\ process_until # "Codegen"
    /\ LET assembly_code ==
               emit_assembly(
                   string_of(parse_result.value.function.identifier),
                   final_instructions)
       IN  /\ output_file' \in {Written(assembly_code), output_file}
           /\ compiler_result' = CompilerResult("Final", assembly_code)
    /\ stage' = "done"
    /\ DriverFrame

-----------------------------------------------------------------------------
(* The compiler on source texts *)

\* int main(void) { return <expression>; } with one space between tokens
SourceReturning(expression_text) ==
    <<"i", "n", "t", " ", "m", "a", "i", "n", "(", "v", "o", "i", "d", ")",
      " ", "{", " ", "r", "e", "t", "u", "r", "n", " ">>
    \o expression_text \o <<";", " ", "}">>

ReturnedTexts ==
    {<<"2">>, <<"(", "1", ")">>, <<"0", "0", "7">>,
     <<"2", "1", "4", "7", "4", "8", "3", "6", "4", "7">>,
     <<>>, <<"1", " ", "2">>, <<"(", "1">>, <<"x">>,
     <<"-", "1">>, <<"1", "+", "2">>, <<"1", "@">>, <<"1", "a">>,
     <<"2", "1", "4", "7", "4", "8", "3", "6", "4", "8">>}

CompilerSources ==
    {SourceReturning(text) : text \in ReturnedTexts}
    \cup {DocumentedSource, DocumentedSource \o <<"\n", "}">>,
          SubSeq(DocumentedSource, 1, 8), <<>>, <<" ", "\n">>,
          <<"@">>, <<"i", "n", "t", ";", ";">>}

InitCompiler ==
    /\ cmm_expression = NoExpression
    /\ temp_counter = 0
    /\ label_counter = 0
    /\ tacky_instructions = <<>>
    /\ asm_instructions = <<>>
    /\ stack_offset = 0
    /\ final_instructions = <<>>
    /\ pc = 0
    /\ env = <<>>
    /\ trace = <<>>
    /\ returned_value = 0
    /\ tokens = <<>>
    /\ position = 0
    /\ parse_result = NoResult
    /\ input_str \in CompilerSources
    /\ string_stream = input_str
    /\ token_vec = <<>>
    /\ iterations = 0
    /\ process_until \in Stages \cup {"None"}
    /\ compiler_result = NoResult
    /\ output_file = NotWritten
    /\ process = NotRunning
    /\ stage = "lexing"

NextCompiler ==
    \/ TokenizeIteration
    \/ ReturnLexer
    \/ ParseTokens
    \/ ReturnError
    \/ ReturnParser
    \/ NewTackyEmitter
    \/ TackyConvertAst
    \/ ReturnTacky
    \/ CodeGenConvertAst
    \/ ReturnCodegen
    \/ EmitAssembly

\* the positions of run_cmm_compiler after the call of tokenize
PositionsAfterLexing ==
    {"lexed", "parse_ok", "parse_error", "parsed", "tacky", "ir_error",
     "converted", "codegen_error", "replaced", "allocated", "codegen", "done"}

\* a statement after the call of tokenize by its position alone: at every
\* position before the return one statement can run, and the steps of the
\* system that change stage are these statements
Statement ==
    /\ stage \in PositionsAfterLexing \ {"done"}
    /\ stage' \in PositionsAfterLexing

\* the function keeps running until it returns
SpecCompiler ==
    /\ InitCompiler /\ [][NextCompiler]_vars
    /\ WF_iterations(TokenizePass) /\ WF_stage(Statement)

-----------------------------------------------------------------------------
(* main of src/bin/cmmc_driver.rs, one action per statement. process.at is
   the position in main, "exited" after the process has ended; stage is
   "not_called" until main calls run_cmm_compiler *)

\* the five flags of CliArgs
Flags == {"lex", "parse", "tacky", "codegen", "S"}

\* the files main names: c_file_path, its .i, its .s and the executable
Files == {"c", "i", "s", "exe"}

\* the two external tools
Tools == {"preprocessor", "linker"}

\* exit codes: main returning Ok(()), main returning Err, and clap's exit
\* on a usage error
ExitSuccess == 0
ExitFailure == 1
ExitUsage == 2

\* every flag conflicts_with_all the others
conflicts(args) == \E a \in args, b \in args : a # b

\* path.is_file(); the .s is also there when run_cmm_compiler has written it
is_file(path) ==
    \/ path \in process.files
    \/ path = "s" /\ output_file.written

\* what a statement of main leaves alone
MainFrame ==
    UNCHANGED <<cmm_expression, temp_counter, label_counter,
                tacky_instructions, asm_instructions, stack_offset,
                final_instructions, exec_vars, tokens, position, parse_result,
                lexer_vars, compiler_result>>

\* the process ends with this code
exit(code) ==
    process' = [process EXCEPT !.at = "exited", !.exit_code = code]

\* main goes on with the next statement
goto(at) == process' = [process EXCEPT !.at = at]

\* let args = CliArgs::parse(): clap ends the process on conflicting flags
CliArgsParse ==
    /\ process.at = "parse_args"
    /\ IF conflicts(process.args) THEN exit(ExitUsage) ELSE goto("is_file")
    /\ UNCHANGED <<stage, process_until, output_file>>
    /\ MainFrame

\* if !c_file_path.is_file() { return Err(..) }
ReturnNotFound ==
    /\ process.at = "is_file"
    /\ IF ~is_file("c") THEN exit(ExitFailure) ELSE goto("match_flags")
    /\ UNCHANGED <<stage, process_until, output_file>>
    /\ MainFrame

\* let process_until = match (args.lex, args.parse, args.tacky, args.codegen)
MatchFlags ==
    /\ process.at = "match_flags"
    /\ process_until' =
           CASE process.args \ {"S"} = {"lex"} -> "Lex"
             [] process.args \ {"S"} = {"parse"} -> "Parse"
             [] process.args \ {"S"} = {"tacky"} -> "Tacky"
             [] process.args \ {"S"} = {"codegen"} -> "Codegen"
             [] OTHER -> "None"
    /\ goto("validate_preprocessor_paths")
    /\ UNCHANGED <<stage, output_file>>
    /\ MainFrame

\* validate_paths_internal: the extension of the input, the input is a file,
\* the default output does not exist yet
validate_paths_internal(input_path, input_ext, output_path) ==
    /\ input_ext = input_path
    /\ is_file(input_path)
    /\ ~is_file(output_path)

\* validation::validate_preprocessor_paths(Path::new(&c_file_path), None)?
ValidatePreprocessorPaths ==
    /\ process.at = "validate_preprocessor_paths"
    /\ IF process.extension = "c" /\ validate_paths_internal("c", "c", "i")
       THEN goto("run_gcc_preprocessor")
       ELSE exit(ExitFailure)
    /\ UNCHANGED <<stage, process_until, output_file>>
    /\ MainFrame

\* let _ = run_gcc_preprocessor(..): gcc writes the .i or fails, and the
\* result is dropped
RunGccPreprocessor ==
    /\ process.at = "run_gcc_preprocessor"
    /\ \E succeeded \in BOOLEAN :
          process' =
              [process EXCEPT
                  !.at = "validate_compiler_paths",
                  !.files = IF succeeded THEN @ \cup {"i"} ELSE @,
                  !.failed = IF succeeded THEN @ ELSE @ \cup {"preprocessor"}]
    /\ UNCHANGED <<stage, process_until, output_file>>
    /\ MainFrame

\* validation::validate_compiler_paths(&preprocessor_output_path, None)?
ValidateCompilerPaths ==
    /\ process.at = "validate_compiler_paths"
    /\ IF validate_paths_internal("i", "i", "s")
       THEN goto("run_cmm_compiler")
       ELSE exit(ExitFailure)
    /\ UNCHANGED <<stage, process_until, output_file>>
    /\ MainFrame

\* run_cmm_compiler(&compiler_input_path, &compiler_output_path,
\* &process_until) is called
CallCmmCompiler ==
    /\ process.at = "run_cmm_compiler"
    /\ stage = "not_called"
    /\ stage' = "lexing"
    /\ goto("remove_preprocessor_output")
    /\ UNCHANGED <<process_until, output_file>>
    /\ MainFrame

\* std::fs::remove_file(&preprocessor_output_path)? after the compiler has
\* returned
RemovePreprocessorOutput ==
    /\ process.at = "remove_preprocessor_output"
    /\ stage = "done"
    /\ process' = [process EXCEPT !.at = "match_compilation_result",
                                  !.files = @ \ {"i"}]
    /\ UNCHANGED <<stage, process_until, output_file>>
    /\ MainFrame

\* match compilation_result: the four early exits print and return Ok(()),
\* Err(e) returns Err(e), Final goes on
MatchCompilationResult ==
    /\ process.at = "match_compilation_result"
    /\ IF ~compiler_result.ok THEN exit(ExitFailure)
       ELSE IF compiler_result.kind # "Final" THEN exit(ExitSuccess)
       ELSE goto("stop_after_cmm_compiler")
    /\ UNCHANGED <<stage, process_until, output_file>>
    /\ MainFrame

\* if args.stop_after_cmm_compiler { .. return Ok(()) }
StopAfterCmmCompiler ==
    /\ process.at = "stop_after_cmm_compiler"
    /\ IF "S" \in process.args THEN exit(ExitSuccess)
       ELSE goto("validate_linker_paths")
    /\ UNCHANGED <<stage, process_until, output_file>>
    /\ MainFrame

\* validation::validate_linker_paths(&compiler_output_path, None)?
ValidateLinkerPaths ==
    /\ process.at = "validate_linker_paths"
    /\ IF validate_paths_internal("s", "s", "exe")
       THEN goto("run_gcc_linker")
       ELSE exit(ExitFailure)
    /\ UNCHANGED <<stage, process_until, output_file>>
    /\ MainFrame

\* let _ = run_gcc_linker(..): gcc writes the executable or fails, and the
\* result is dropped
RunGccLinker ==
    /\ process.at = "run_gcc_linker"
    /\ \E succeeded \in BOOLEAN :
          process' =
              [process EXCEPT
                  !.at = "remove_compiler_output",
                  !.files = IF succeeded THEN @ \cup {"exe"} ELSE @,
                  !.linked = succeeded,
                  !.failed = IF succeeded THEN @ ELSE @ \cup {"linker"}]
    /\ UNCHANGED <<stage, process_until, output_file>>
    /\ MainFrame

\* std::fs::remove_file(&compiler_output_path)?; Ok(())
RemoveCompilerOutput ==
    /\ process.at = "remove_compiler_output"
    /\ exit(ExitSuccess)
    /\ output_file' = NotWritten
    /\ UNCHANGED <<stage, process_until>>
    /\ MainFrame

\* the preprocessed texts
MainSources ==
    {DocumentedSource, SourceReturning(<<"(", "1", ")">>),
     SourceReturning(<<>>), SourceReturning(<<"1", " ", "2">>), <<"@">>}

InitMain ==
    /\ cmm_expression = NoExpression
    /\ temp_counter = 0
    /\ label_counter = 0
    /\ tacky_instructions = <<>>
    /\ asm_instructions = <<>>
    /\ stack_offset = 0
    /\ final_instructions = <<>>
    /\ pc = 0
    /\ env = <<>>
    /\ trace = <<>>
    /\ returned_value = 0
    /\ tokens = <<>>
    /\ position = 0
    /\ parse_result = NoResult
    /\ input_str \in MainSources
    /\ string_stream = input_str
    /\ token_vec = <<>>
    /\ iterations = 0
    /\ process_until = "None"
    /\ compiler_result = NoResult
    /\ output_file = NotWritten
    /\ stage = "not_called"
    /\ \E args \in SUBSET Flags, files \in SUBSET Files,
          extension \in {"c", "txt"} :
          process = [at |-> "parse_args", args |-> args, files |-> files,
                     extension |-> extension, failed |-> {},
                     linked |-> FALSE,
                     exit_code |-> ExitSuccess]

NextMain ==
    \/ CliArgsParse
    \/ ReturnNotFound
    \/ MatchFlags
    \/ ValidatePreprocessorPaths
    \/ RunGccPreprocessor
    \/ ValidateCompilerPaths
    \/ CallCmmCompiler
    \/ NextCompiler
    \/ RemovePreprocessorOutput
    \/ MatchCompilationResult
    \/ StopAfterCmmCompiler
    \/ ValidateLinkerPaths
    \/ RunGccLinker
    \/ RemoveCompilerOutput

SpecMain == InitMain /\ [][NextMain]_vars

-----------------------------------------------------------------------------
(* Properties of the code generator's output *)

\* the operands of an assembly instruction, in the order the passes visit them
OperandsOf(i) ==
    CASE i.kind \in {"Mov", "Binary"} -> <<i.source, i.destination>>
      [] i.kind = "Cmp" -> <<i.left, i.right>>
      [] i.kind \in {"Unary", "Idiv", "SetCC"} -> <<i.operand>>
      [] OTHER -> <<>>

NoPseudoIn(instructions) ==
    \A k \in 1..Len(instructions) :
        \A j \in 1..Len(OperandsOf(instructions[k])) :
            OperandsOf(instructions[k])[j].kind # "Pseudo"

BothStack(a, b) == a.kind = "Stack" /\ b.kind = "Stack"

Returned == stage = "codegen"

\* C1: the list returned by convert_ast has no Pseudo operand in any Mov,
\* Unary, Binary, Cmp, Idiv or SetCC; the replacement pass already leaves none
\* in the list it rewrites.
C1_NoPseudoOperand ==
    /\ stage \in {"replaced", "allocated", "codegen"}
          => NoPseudoIn(asm_instructions)
    /\ Returned => NoPseudoIn(final_instructions)

\* C1 witness: a returned list in which a name was used twice, by a Cmp and by
\* a SetCC, both now on the stack.
C1_Witness ==
    /\ Returned
    /\ \E k, j \in 1..Len(final_instructions) :
          /\ final_instructions[k].kind = "Cmp"
          /\ final_instructions[k].right.kind = "Stack"
          /\ final_instructions[j].kind = "SetCC"
          /\ final_instructions[j].operand = final_instructions[k].right

\* C2: in the returned list no Mov, no Binary Add, no Binary Sub and no Cmp has
\* both operands of the form Stack(_).
C2_NoMemoryToMemory ==
    Returned =>
        \A k \in 1..Len(final_instructions) :
            LET i == final_instructions[k]
            IN  /\ i.kind = "Mov" => ~BothStack(i.source, i.destination)
                /\ i.kind = "Binary" /\ i.op \in {"Add", "Sub"}
                      => ~BothStack(i.source, i.destination)
                /\ i.kind = "Cmp" => ~BothStack(i.left, i.right)

\* C2 witness: the list handed to the fixup pass held a Mov, a Sub and a Cmp
\* with both operands on the stack.
C2_Witness ==
    /\ Returned
    /\ \E k, j, m \in 1..Len(asm_instructions) :
          /\ asm_instructions[k].kind = "Mov"
          /\ BothStack(asm_instructions[k].source,
                       asm_instructions[k].destination)
          /\ asm_instructions[j].kind = "Binary"
          /\ asm_instructions[j].op = "Sub"
          /\ BothStack(asm_instructions[j].source,
                       asm_instructions[j].destination)
          /\ asm_instructions[m].kind = "Cmp"
          /\ BothStack(asm_instructions[m].left, asm_instructions[m].right)

\* C3: in the returned list no Cmp has Imm(_) as its right operand.
C3_NoCmpImmediateRight ==
    Returned =>
        \A k \in 1..Len(final_instructions) :
            final_instructions[k].kind = "Cmp"
                => final_instructions[k].right.kind # "Imm"

\* C3 witness: the fixup pass was handed a Cmp(Stack, Imm).
C3_Witness ==
    /\ Returned
    /\ \E k \in 1..Len(asm_instructions) :
          /\ asm_instructions[k].kind = "Cmp"
          /\ asm_instructions[k].left.kind = "Stack"
          /\ asm_instructions[k].right.kind = "Imm"

\* C4: in the returned list no Binary Mult has Stack(_) as its destination.
C4_NoMultIntoMemory ==
    Returned =>
        \A k \in 1..Len(final_instructions) :
            LET i == final_instructions[k]
            IN  i.kind = "Binary" /\ i.op = "Mult"
                    => i.destination.kind # "Stack"

\* C4 witness: the fixup pass was handed a Mult with a stack destination.
C4_Witness ==
    /\ Returned
    /\ \E k \in 1..Len(asm_instructions) :
          /\ asm_instructions[k].kind = "Binary"
          /\ asm_instructions[k].op = "Mult"
          /\ asm_instructions[k].destination.kind = "Stack"

\* C5: in the returned list no Idiv has Imm(_) as its operand.
C5_NoIdivImmediate ==
    Returned =>
        \A k \in 1..Len(final_instructions) :
            final_instructions[k].kind = "Idiv"
                => final_instructions[k].operand.kind # "Imm"

\* C5 witness: the fixup pass was handed an Idiv(Imm).
C5_Witness ==
    /\ Returned
    /\ \E k \in 1..Len(asm_instructions) :
          /\ asm_instructions[k].kind = "Idiv"
          /\ asm_instructions[k].operand.kind = "Imm"

\* C6: the first instruction of the returned list is AllocateStack{bytes} with
\* bytes >= 0, bytes being the absolute value of the final offset counter: 4n
\* when n distinct temporaries occur.
C6_AllocateStackNonNegative ==
    Returned =>
        /\ final_instructions[1].kind = "AllocateStack"
        /\ final_instructions[1].stack_offset >= 0
        /\ final_instructions[1].stack_offset = Abs(stack_offset)
        /\ final_instructions[1].stack_offset =
               STACK_ADDRESS_OFFSET * Cardinality(TemporariesOf(tacky_instructions))

\* the list the replacement pass was handed
Converted == instruction_conversion_pass(tacky_instructions).value

PseudoPositions(i) ==
    {j \in 1..Len(OperandsOf(i)) : OperandsOf(i)[j].kind = "Pseudo"}

PseudoNames(i) == {OperandsOf(i)[j].name : j \in PseudoPositions(i)}

\* each Pseudo operand of the list `before` paired with what stands in its
\* place in the list `after`: <<name, operand>>
ReplacementsIn(before, after) ==
    UNION {{<<OperandsOf(before[k])[j].name, OperandsOf(after[k])[j]>> :
              j \in PseudoPositions(before[k])} :
           k \in 1..Len(before)}

Replacements == ReplacementsIn(Converted, asm_instructions)

\* C7: after the replacement pass every occurrence of one name is replaced by
\* the same Stack offset, two names never share an offset, and with n distinct
\* names the offsets used are exactly {-4, -8, ..., -4n}.
C7_StackSlotsUniqueAndDense ==
    stage \in {"replaced", "allocated", "codegen"} =>
        LET before == Converted
            replaced == ReplacementsIn(before, asm_instructions)
            n == Cardinality({p[1] : p \in replaced})
        IN  /\ Len(asm_instructions) = Len(before)
            /\ \A p \in replaced : p[2].kind = "Stack"
            /\ \A p, q \in replaced : (p[1] = q[1]) <=> (p[2] = q[2])
            /\ {p[2].offset : p \in replaced} = {-(4 * k) : k \in 1..n}
            /\ stack_offset = -(4 * n)

\* C7 witness: three names were replaced, one of them in two different
\* instructions that come from different TACKY instructions.
C7_Witness ==
    /\ stage = "replaced"
    /\ Cardinality({p[1] : p \in Replacements}) = 3
    /\ Len(tacky_instructions) >= 2
    /\ PseudoNames(Converted[1]) \cap PseudoNames(Converted[Len(Converted)]) # {}
    /\ PseudoNames(Converted[1]) # PseudoNames(Converted[Len(Converted)])

-----------------------------------------------------------------------------
(* Properties of the IR generator's output *)

\* convert_ast of the IR generator has returned Ok
TackyGenerated == cmm_expression # NoExpression /\ stage = "tacky"

JumpPositions(tis) ==
    {k \in 1..Len(tis) :
        tis[k].kind \in {"Jump", "JumpIfZero", "JumpIfNotZero"}}

\* C8: in the TACKY list produced by convert_ast no two Label instructions
\* carry the same name, and every Jump, JumpIfZero and JumpIfNotZero target is
\* the name of a Label instruction of the list.
C8_LabelsUniqueTargetsExist ==
    TackyGenerated =>
        /\ \A j, k \in LabelPositions(tacky_instructions) :
               tacky_instructions[j].label = tacky_instructions[k].label
                   => j = k
        /\ \A j \in JumpPositions(tacky_instructions) :
               \E k \in LabelPositions(tacky_instructions) :
                   tacky_instructions[k].label = tacky_instructions[j].target

\* C8 witness: an && whose left operand is an &&, lowered to four labels and
\* six jumps.
C8_Witness ==
    /\ TackyGenerated
    /\ cmm_expression.kind = "Binary"
    /\ cmm_expression.operator = "And"
    /\ cmm_expression.left.kind = "Binary"
    /\ cmm_expression.left.operator = "And"
    /\ Cardinality(LabelPositions(tacky_instructions)) = 4
    /\ Cardinality(JumpPositions(tacky_instructions)) = 6

-----------------------------------------------------------------------------
(* Properties of the execution of the IR generator's output *)

\* the number of instructions emit_tacky appends for an expression
EmittedLength(e) == Len(emit_tacky(e, TackyEmitterNew).emitter.instructions)

\* the && and || nodes of an expression whose first instruction is emitted at
\* position from, each with the positions of the two conditional jumps that
\* follow its left and its right operand
RECURSIVE ShortCircuitsOf(_, _)
ShortCircuitsOf(e, from) ==
    CASE e.kind = "IntegerConstant" -> {}
      [] e.kind = "Unary" -> ShortCircuitsOf(e.expression, from)
      [] e.kind = "Binary" /\ e.operator \in {"And", "Or"} ->
            LET first_jump == from + EmittedLength(e.left)
                second_jump == first_jump + 1 + EmittedLength(e.right)
            IN  {[operator |-> e.operator, first_jump |-> first_jump,
                  second_jump |-> second_jump]}
                \cup ShortCircuitsOf(e.left, from)
                \cup ShortCircuitsOf(e.right, first_jump + 1)
      [] e.kind = "Binary" /\ e.operator \notin {"And", "Or"} ->
            ShortCircuitsOf(e.left, from)
            \cup ShortCircuitsOf(e.right, from + EmittedLength(e.left))

Executed(k) == \E n \in 1..Len(trace) : trace[n] = k

\* the position executed right after position k
ExecutedAfter(k) ==
    {trace[n + 1] : n \in {m \in 1..(Len(trace) - 1) : trace[m] = k}}

\* C10: when the TACKY emitted for l && r is executed and l is zero, control
\* goes from the first conditional jump to the false label, no instruction
\* emitted for r is executed and the result is 0; the result is 1 exactly when
\* l and r are both non-zero. For l || r: when l is non-zero no instruction
\* emitted for r is executed and the result is 1; the result is 0 exactly
\* when both are zero.
C10_ShortCircuit ==
    stage = "returned" =>
        \A s \in ShortCircuitsOf(cmm_expression, 1) :
            LET first == tacky_instructions[s.first_jump]
                second == tacky_instructions[s.second_jump]
                copy == tacky_instructions[s.second_jump + 1]
                jump == IF s.operator = "And"
                        THEN "JumpIfZero" ELSE "JumpIfNotZero"
                l == value_of(first.condition, env)
                r == value_of(second.condition, env)
                result == value_of(copy.destination, env)
                skips == IF s.operator = "And" THEN l = 0 ELSE l # 0
            IN  /\ first.kind = jump
                /\ second.kind = jump
                /\ copy.kind = "Copy"
                /\ Executed(s.first_jump) =>
                      /\ skips =>
                            /\ \A k \in (s.first_jump + 1)..(s.second_jump - 1) :
                                   ~Executed(k)
                            /\ \A k \in ExecutedAfter(s.first_jump) :
                                   /\ tacky_instructions[k].kind = "Label"
                                   /\ tacky_instructions[k].label = first.target
                            /\ ExecutedAfter(s.first_jump) # {}
                            /\ result = IF s.operator = "And" THEN 0 ELSE 1
                      /\ s.operator = "And" =>
                            ((result = 1) <=> (l # 0 /\ r # 0))
                      /\ s.operator = "Or" =>
                            ((result = 0) <=> (l = 0 /\ r = 0))

\* C10 witness: 0 && r and 2 || r have run to their Return, r being an
\* operator node whose instructions were skipped.
C10_Witness ==
    /\ stage = "returned"
    /\ cmm_expression.kind = "Binary"
    /\ cmm_expression.operator \in {"And", "Or"}
    /\ cmm_expression.left.kind = "IntegerConstant"
    /\ cmm_expression.right.kind # "IntegerConstant"
    /\ trace = <<1, Len(tacky_instructions) - 3, Len(tacky_instructions) - 2,
                 Len(tacky_instructions) - 1, Len(tacky_instructions)>>
    /\ returned_value = IF cmm_expression.operator = "And" THEN 0 ELSE 1

-----------------------------------------------------------------------------
(* Properties of the temporaries of the IR generator's output *)

\* the positions of the instructions that write the variable called name
DestinationPositions(tis, name) ==
    {k \in 1..Len(tis) :
        /\ tis[k].kind \in {"Unary", "Binary", "Copy"}
        /\ tis[k].destination = Variable(name)}

\* C11 as stated: in the slice emitted for an expression every Variable is
\* the destination of at most one instruction.
C11_SingleDestination ==
    TackyGenerated =>
        \A name \in TemporariesOf(tacky_instructions) :
            Cardinality(DestinationPositions(tacky_instructions, name)) <= 1

\* C11 amended: every Variable is the destination of at most one instruction,
\* except the result variable of an && or || node, which is the destination
\* of exactly the two Copy instructions of that node's lowering.
C11_SingleDestinationButResult ==
    TackyGenerated =>
        \A name \in TemporariesOf(tacky_instructions) :
            LET positions == DestinationPositions(tacky_instructions, name)
                nodes == {s \in ShortCircuitsOf(cmm_expression, 1) :
                             s.second_jump + 1 \in positions}
            IN  IF nodes = {}
                THEN Cardinality(positions) = 1
                ELSE \A s \in nodes :
                        /\ positions = {s.second_jump + 1, s.second_jump + 4}
                        /\ \A k \in positions :
                               tacky_instructions[k].kind = "Copy"

\* C11 witness: a list in which one variable is written by one Unary or
\* Binary instruction and another by the two Copy instructions of an &&.
C11_Witness ==
    /\ TackyGenerated
    /\ cmm_expression.kind = "Binary"
    /\ cmm_expression.operator = "And"
    /\ \E a, b \in TemporariesOf(tacky_instructions) :
          /\ Cardinality(DestinationPositions(tacky_instructions, a)) = 1
          /\ Cardinality(DestinationPositions(tacky_instructions, b)) = 2

-----------------------------------------------------------------------------
(* Properties of the parser *)

ParseAstReturned == stage \in {"parse_ok", "parse_error"}

\* the tokens between `return` and `;` of a token list of the form
\* int main(void) { return ... ; }, and <<>> for any other list
ExpressionTokensOf(token_list) ==
    IF Len(token_list) >= 9
       /\ token_list = FunctionTokens(SubSeq(token_list, 8, Len(token_list) - 2))
    THEN SubSeq(token_list, 8, Len(token_list) - 2)
    ELSE <<>>

\* the tree of a plain factor
FactorTree(factor_tokens) ==
    CASE Len(factor_tokens) = 1 -> IntegerConstant(factor_tokens[1].value)
      [] Len(factor_tokens) = 2 ->
            CmmUnary("Negate", IntegerConstant(factor_tokens[2].value))
      [] OTHER ->
            CmmBinary("Or", IntegerConstant(factor_tokens[2].value),
                      IntegerConstant(factor_tokens[4].value))

\* the precedence table: * / % 50, + - 45, < > <= >= 35, == != 30, && 10, || 5
TablePrecedence(operator) ==
    CASE operator \in {"Multiply", "Divide", "Remainder"} -> 50
      [] operator \in {"Add", "Subtract"} -> 45
      [] operator \in {"LessThan", "GreaterThan", "LessThanEqual",
                       "GreaterThanEqual"} -> 35
      [] operator \in {"Equal", "NotEqual"} -> 30
      [] operator = "And" -> 10
      [] operator = "Or" -> 5

BinaryOperatorOf(token) == parse_binary_operator(<<token>>, 0).value

ProgramReturning(expression) ==
    Ok(CmmProgram(CmmFunction("main", CmmReturn(expression))))

\* C12: a op1 b op2 c parses to Binary(op1, a, Binary(op2, b, c)) when op2
\* has the higher precedence in the table and to
\* Binary(op2, Binary(op1, a, b), c) otherwise; a parenthesised expression
\* is one factor whatever operator it holds.
C12_PrecedenceClimbing ==
    ParseAstReturned =>
        LET x == ExpressionTokensOf(tokens)
        IN  \A a, b, c \in PlainFactors :
                LET i == Len(a) + 1
                    j == Len(a) + Len(b) + 2
                IN  (/\ Len(x) = Len(a) + Len(b) + Len(c) + 2
                     /\ is_binary_operator(x[i])
                     /\ is_binary_operator(x[j])
                     /\ x = a \o <<x[i]>> \o b \o <<x[j]>> \o c)
                    => LET op1 == BinaryOperatorOf(x[i])
                           op2 == BinaryOperatorOf(x[j])
                       IN  parse_result = ProgramReturning(
                               IF TablePrecedence(op2) > TablePrecedence(op1)
                               THEN CmmBinary(op1, FactorTree(a),
                                        CmmBinary(op2, FactorTree(b),
                                                  FactorTree(c)))
                               ELSE CmmBinary(op2,
                                        CmmBinary(op1, FactorTree(a),
                                                  FactorTree(b)),
                                        FactorTree(c)))

\* C12 witness: (1 || 2) + 1 * -2 has been parsed, the product under the sum.
C12_Witness ==
    /\ stage = "parse_ok"
    /\ Len(ExpressionTokensOf(tokens)) = 10
    /\ cmm_expression.kind = "Binary"
    /\ cmm_expression.operator = "Add"
    /\ cmm_expression.left = CmmBinary("Or", IntegerConstant(1),
                                       IntegerConstant(2))
    /\ cmm_expression.right.kind = "Binary"
    /\ cmm_expression.right.operator = "Multiply"

UnaryOperatorOf(token_kind) ==
    CASE token_kind = "Hyphen" -> "Negate"
      [] token_kind = "Tilde" -> "Complement"
      [] token_kind = "ExclamationMark" -> "Not"

\* C13: each of Hyphen, Tilde and ExclamationMark in front of a factor f is
\* parsed to Unary(Negate | Complement | Not, f).
C13_UnaryOperatorsAccepted ==
    ParseAstReturned =>
        \A u \in UnaryOperatorTokens, f \in PlainFactors :
            tokens = FunctionTokens(<<Token(u)>> \o f)
                => /\ parse_factor(tokens, 7).ok
                   /\ parse_factor(tokens, 7).value =
                          CmmUnary(UnaryOperatorOf(u), FactorTree(f))
                   /\ parse_result = ProgramReturning(
                          CmmUnary(UnaryOperatorOf(u), FactorTree(f)))

AcceptedProperPrefixes == ProperPrefixes(AcceptedFunctions)

\* C14: when a prefix of the tokens is a complete function that parse_ast
\* accepts and k >= 1 tokens follow it, parse_ast returns
\* UnexpectedTrailingTokens with exactly those k tokens; when none follows it
\* returns Ok; an Ok parse leaves position = tokens.len().
C14_TrailingTokens ==
    ParseAstReturned =>
        /\ \A n \in 1..Len(tokens) :
               SubSeq(tokens, 1, n) \in AcceptedFunctions =>
                   IF n = Len(tokens)
                   THEN parse_result.ok
                   ELSE parse_result =
                            Err(UnexpectedTrailingTokens(
                                    SubSeq(tokens, n + 1, Len(tokens))))
        /\ parse_result.ok => position = Len(tokens)

\* C14 witness: two tokens after the closing brace were reported.
C14_Witness ==
    /\ stage = "parse_error"
    /\ parse_result.error.kind = "UnexpectedTrailingTokens"
    /\ Len(parse_result.error.found) = 2
    /\ SubSeq(tokens, 1, Len(tokens) - 2) \in AcceptedFunctions

\* C15: on the empty token list and on every proper prefix of a list that
\* parse_ast accepts, parse_ast returns UnexpectedEndOfInput.
C15_EndOfInput ==
    (ParseAstReturned /\ tokens \in AcceptedProperPrefixes)
        => parse_result = Err(UnexpectedEndOfInput)

\* C15 witness: the tokens ended right after a binary operator.
C15_Witness ==
    /\ stage = "parse_error"
    /\ tokens \in AcceptedProperPrefixes
    /\ Len(tokens) > 8
    /\ is_binary_operator(tokens[Len(tokens)])
    /\ parse_result = Err(UnexpectedEndOfInput)

-----------------------------------------------------------------------------
(* Properties of the lexer *)

PunctuationCharacters == {";", "{", "}", "(", ")"}

\* the characters with which some token of the language begins
TokenStartCharacters ==
    AsciiLetters \cup {"_"} \cup {DecimalDigits[k] : k \in 1..Len(DecimalDigits)}
    \cup PunctuationCharacters \cup {text[1] : text \in OperatorTexts}

\* the input left after the whitespace begins with a character that begins
\* no token, or with an integer literal that does not fit in i32
OffendingInput ==
    LET remaining == trim_start(string_stream)
    IN  /\ stage = "lexing"
        /\ remaining # <<>>
        /\ \/ remaining[1] \notin TokenStartCharacters
           \/ /\ constant_pattern(remaining) # <<>>
              /\ ~parse_i32(constant_pattern(remaining), 1, 0).ok

\* C16: tokenize terminates on every source string, and when the input left
\* after the whitespace begins with a character that begins no token, or
\* with an integer literal that does not fit in i32, lexing stops with a
\* lex error instead of looping
C16_TerminatesOrFails ==
    /\ <>(stage \in {"lexed", "lex_error"})
    /\ [](OffendingInput => <>(stage = "lex_error"))

\* source texts made of operators only, with the tokens they stand for:
\* one operator between optional whitespace, and two operators with a
\* space between them
OperatorSources ==
    {[text |-> leading \o operator.text \o separator,
      tokens |-> <<Token(operator.kind)>>] :
        leading \in {<<>>, <<" ">>}, operator \in OperatorTokens,
        separator \in Separators}
    \cup {[text |-> first.text \o <<" ">> \o second.text,
           tokens |-> <<Token(first.kind), Token(second.kind)>>] :
            first \in {o \in OperatorTokens : o.text \in CombinedLexemes},
            second \in {o \in OperatorTokens : o.text \in CombinedLexemes}}

\* the tokens an operator source stands for, <<>> for any other text
OperatorsOf(text) ==
    IF \E o \in OperatorSources : o.text = text
    THEN (CHOOSE o \in OperatorSources : o.text = text).tokens
    ELSE <<>>

\* C17: tokenize recognises every operator with longest match: a source
\* made of operators is lexed into the token of each operator, a
\* two-character operator as its single token, in source order
C17_OperatorsRecognised ==
    (input_str \in {o.text : o \in OperatorSources})
        => <>(stage = "lexed" /\ tokens = OperatorsOf(input_str))

\* [A-Za-z0-9_]
is_identifier_character(c) == is_identifier_start(c) \/ is_decimal_digit(c)

\* the longest prefix of s of the form [A-Za-z_][A-Za-z0-9_]*, <<>> if none
WholeWord(s) ==
    IF s # <<>> /\ is_identifier_start(s[1])
    THEN SubSeq(s, 1, longest_run(s, is_identifier_character))
    ELSE <<>>

KeywordOrIdentifier(word) ==
    CASE word = <<"i", "n", "t">> -> Token("IntKeyword")
      [] word = <<"v", "o", "i", "d">> -> Token("VoidKeyword")
      [] word = <<"r", "e", "t", "u", "r", "n">> -> Token("ReturnKeyword")
      [] OTHER -> TokenIdentifier(word)

\* C18: parse_identifier_or_keyword consumes the whole word
\* [A-Za-z_][A-Za-z0-9_]* at the start of its input, returns the keyword
\* token when that word is exactly int, void or return and Identifier(word)
\* otherwise, with the input after the word as the remainder; it fails when
\* the input begins with no such word, as with a digit
C18_WholeWord ==
    LET word == WholeWord(string_stream)
        result == parse_identifier_or_keyword(string_stream)
    IN  IF word = <<>> THEN ~result.ok
        ELSE /\ result.ok
             /\ result.value[1] = strip_prefix(string_stream, word)
             /\ result.value[2] = KeywordOrIdentifier(word)

-----------------------------------------------------------------------------
(* Properties of run_cmm_compiler *)

LexerErrorKinds ==
    {"UnexpectedCharacter", "NonmatchingPattern", "InvalidConstant",
     "NoParserMatched", "EmptyInputString"}

CompilerReturned == stage = "done" /\ compiler_result # NoResult

\* no stage after the lexer has run
ParserNotRun ==
    position = 0 /\ parse_result = NoResult /\ cmm_expression = NoExpression

IrGenNotRun == tacky_instructions = <<>> /\ temp_counter = 0 /\ label_counter = 0

CodegenNotRun ==
    asm_instructions = <<>> /\ final_instructions = <<>> /\ stack_offset = 0

\* run_cmm_compiler returned an error
ReturnedError ==
    IF CompilerReturned THEN ~compiler_result.ok ELSE FALSE

ReturnedLexerError ==
    IF ReturnedError
    THEN compiler_result.error.kind \in LexerErrorKinds
    ELSE FALSE

ReturnedParserError ==
    IF ReturnedError /\ parse_result # NoResult
    THEN IF parse_result.ok THEN FALSE
         ELSE compiler_result = Err(parse_result.error)
    ELSE FALSE

\* C19: when the lexer, the parser, the IR generator or the code generator
\* fails, run_cmm_compiler returns the error of that stage, no later stage
\* runs and nothing is written to the output path
C19_ErrorsReturned ==
    /\ [](OffendingInput =>
            <>(/\ ReturnedLexerError
               /\ ParserNotRun /\ IrGenNotRun /\ CodegenNotRun
               /\ output_file = NotWritten))
    /\ [](stage = "parse_error" =>
            <>(/\ ReturnedParserError
               /\ IrGenNotRun /\ CodegenNotRun
               /\ output_file = NotWritten))
    /\ [](stage = "ir_error" =>
            <>(ReturnedError /\ CodegenNotRun /\ output_file = NotWritten))
    /\ [](stage = "codegen_error" =>
            <>(ReturnedError /\ output_file = NotWritten))

\* the outputs of the stages, each computed from the output of the stage
\* before it
Lexed == tokens = token_vec /\ trim_start(string_stream) = <<>>

ParsedFromTokens ==
    /\ parse_ast(tokens, 0).ok
    /\ parse_result = Ok(parse_ast(tokens, 0).value)

TackyFromAst ==
    LET r == convert_statement(parse_result.value.function.body.expression,
                               TackyEmitterNew)
    IN  r.ok /\ tacky_instructions = r.emitter.instructions

CodegenFromTacky ==
    LET converted == instruction_conversion_pass(tacky_instructions)
    IN  /\ converted.ok
        /\ LET replaced == pseudoregister_replacement_pass(converted.value)
           IN  final_instructions =
                   <<stack_allocation_pass(replaced.offset_counter)>>
                   \o instruction_fixup_pass(replaced.instructions)

\* C20: with process_until = Some(S) run_cmm_compiler returns the
\* CompilerResult variant of stage S with the output of that stage, no stage
\* after S has run and nothing is written to the output path; with None all
\* stages have run in the order lex, parse, tacky, codegen, emit and the
\* result is Final with the emitted assembly text
C20_ProcessUntil ==
    (CompilerReturned /\ compiler_result.ok) =>
        CASE process_until = "Lex" ->
                /\ compiler_result = CompilerResult("Lexer", tokens)
                /\ Lexed
                /\ ParserNotRun /\ IrGenNotRun /\ CodegenNotRun
                /\ output_file = NotWritten
          [] process_until = "Parse" ->
                /\ compiler_result = CompilerResult("Parser", parse_result.value)
                /\ Lexed /\ ParsedFromTokens
                /\ IrGenNotRun /\ CodegenNotRun
                /\ output_file = NotWritten
          [] process_until = "Tacky" ->
                /\ compiler_result = CompilerResult("Tacky", tacky_instructions)
                /\ Lexed /\ ParsedFromTokens /\ TackyFromAst
                /\ CodegenNotRun
                /\ output_file = NotWritten
          [] process_until = "Codegen" ->
                /\ compiler_result =
                       CompilerResult("Codegen", final_instructions)
                /\ Lexed /\ ParsedFromTokens /\ TackyFromAst
                /\ CodegenFromTacky
                /\ output_file = NotWritten
          [] process_until = "None" ->
                /\ compiler_result.kind = "Final"
                /\ Lexed /\ ParsedFromTokens /\ TackyFromAst
                /\ CodegenFromTacky
                /\ compiler_result.value =
                       emit_assembly(
                           string_of(parse_result.value.function.identifier),
                           final_instructions)
                /\ output_file \in {NotWritten, Written(compiler_result.value)}

\* an early exit after the code generator, with the assembly list as result
C20_Witness ==
    /\ CompilerReturned
    /\ process_until = "Codegen"
    /\ compiler_result.ok
    /\ compiler_result.kind = "Codegen"
    /\ Len(compiler_result.value) >= 3

-----------------------------------------------------------------------------
(* Properties of main *)

Exited == process.at = "exited"

\* bad input path, bad extension or conflicting flags
UserError ==
    \/ conflicts(process.args)
    \/ "c" \notin process.files
    \/ process.extension # "c"

\* run_cmm_compiler returned the error of a stage
CompileError ==
    /\ stage = "done"
    /\ ~compiler_result.ok

\* the run asked for has been made: the stage asked for has returned its
\* tree, or the assembly has been emitted under -S, or the executable linked
Success ==
    /\ ~UserError
    /\ stage = "done"
    /\ compiler_result.ok
    /\ process.failed = {}
    /\ \/ compiler_result.kind # "Final"
       \/ "S" \in process.args
       \/ process.linked

\* C21: the exit code of the driver is 0 on success, 1 on a user error (bad
\* input path, bad extension, conflicting flags), 2 on a compile error in any
\* stage, 3 when the external preprocessor or linker fails
C21_ExitCodes ==
    Exited =>
        /\ UserError => process.exit_code = 1
        /\ (~UserError /\ process.failed # {}) => process.exit_code = 3
        /\ (~UserError /\ CompileError) => process.exit_code = 2
        /\ Success => process.exit_code = 0

-----------------------------------------------------------------------------
(* Properties of the lowering of single nodes *)

\* the emitter with the same counters and an empty instruction vector: what
\* emit_tacky appends from it is the slice of one sub-expression
Fresh(em) == Emitter(em.temp_counter, em.label_counter, <<>>)

IsShortCircuit(e) == e.kind = "Binary" /\ e.operator \in {"And", "Or"}

\* every operator node of e with the emitter at the moment emit_tacky is
\* called on it, when e itself is lowered from emitter em
RECURSIVE LoweredNodes(_, _)
LoweredNodes(e, em) ==
    CASE e.kind = "IntegerConstant" -> {}
      [] e.kind = "Unary" ->
            {[node |-> e, emitter |-> em]} \cup LoweredNodes(e.expression, em)
      [] e.kind = "Binary" ->
            LET before_left ==
                    IF IsShortCircuit(e)
                    THEN [em EXCEPT !.label_counter = @ + 2]
                    ELSE em
                after_left == emit_tacky(e.left, before_left).emitter
            IN  {[node |-> e, emitter |-> em]}
                \cup LoweredNodes(e.left, before_left)
                \cup LoweredNodes(e.right, after_left)

\* the names of the Label instructions of a list
LabelsOf(tis) == {tis[i].label : i \in {j \in DOMAIN tis : tis[j].kind = "Label"}}

\* the label names with an index of at least k and below n
LabelsFrom(k, n) ==
    {tag \o ToString(i) :
        tag \in {"and_false", "and_end", "or_true", "or_end"},
        i \in k..(n - 1)}

\* the lowering of the And or Or node e from emitter em as the claim spells
\* it out
ShortCircuitLowering(e, em) ==
    LET k == em.label_counter
        is_and == e.operator = "And"
        label_short ==
            (IF is_and THEN "and_false" ELSE "or_true") \o ToString(k)
        label_end ==
            (IF is_and THEN "and_end" ELSE "or_end") \o ToString(k + 1)
        l == emit_tacky(e.left, Emitter(em.temp_counter, k + 2, <<>>))
        r == emit_tacky(e.right, Fresh(l.emitter))
        d == Variable("tmp." \o ToString(r.emitter.temp_counter))
        jump(c) ==
            IF is_and THEN TackyJumpIfZero(c, label_short)
            ELSE TackyJumpIfNotZero(c, label_short)
    IN  [left |-> l.emitter.instructions,
         right |-> r.emitter.instructions,
         label_counter |-> r.emitter.label_counter,
         temp_counter |-> r.emitter.temp_counter + 1,
         value |-> d,
         appended |->
            l.emitter.instructions \o <<jump(l.value)>>
            \o r.emitter.instructions \o <<jump(r.value)>>
            \o <<TackyCopy(Constant(IF is_and THEN 1 ELSE 0), d),
                 TackyJump(label_end),
                 TackyLabel(label_short),
                 TackyCopy(Constant(IF is_and THEN 0 ELSE 1), d),
                 TackyLabel(label_end)>>]

\* C22: lowering Binary(And, l, r) at label counter k takes and_false<k> and
\* and_end<k+1> before either operand (labels made inside l and r have
\* indices from k+2), takes the result temporary d after both operands and
\* appends exactly emit(l); JumpIfZero(a, and_false<k>); emit(r);
\* JumpIfZero(b, and_false<k>); Copy(1, d); Jump(and_end<k+1>);
\* Label(and_false<k>); Copy(0, d); Label(and_end<k+1>); Or is the same with
\* JumpIfNotZero, or_true<k>, or_end<k+1>, Copy 0 first and Copy 1 second,
\* on the same label counter
C22_ShortCircuitLowering ==
    TackyGenerated =>
        /\ tacky_instructions =
              LET whole == emit_tacky(cmm_expression, TackyEmitterNew)
              IN  Append(whole.emitter.instructions, TackyReturn(whole.value))
        /\ \A n \in LoweredNodes(cmm_expression, TackyEmitterNew) :
              IsShortCircuit(n.node) =>
                 LET claimed == ShortCircuitLowering(n.node, n.emitter)
                     lowered == emit_tacky(n.node, n.emitter)
                 IN  /\ lowered.ok
                     /\ lowered.value = claimed.value
                     /\ lowered.emitter.instructions =
                           n.emitter.instructions \o claimed.appended
                     /\ lowered.emitter.label_counter = claimed.label_counter
                     /\ lowered.emitter.temp_counter = claimed.temp_counter
                     /\ LabelsOf(claimed.left) \cup LabelsOf(claimed.right)
                           \subseteq LabelsFrom(n.emitter.label_counter + 2,
                                                claimed.label_counter)

\* an || lowered inside the left operand of an &&, at label counter 2
C22_Witness ==
    /\ TackyGenerated
    /\ \E n \in LoweredNodes(cmm_expression, TackyEmitterNew) :
          /\ n.node.kind = "Binary" /\ n.node.operator = "Or"
          /\ n.emitter.label_counter = 2
          /\ cmm_expression.kind = "Binary" /\ cmm_expression.operator = "And"
          /\ TackyLabel("or_true2") \in
                {tacky_instructions[i] : i \in DOMAIN tacky_instructions}

\* the number of operator nodes of an expression
RECURSIVE OperatorNodes(_)
OperatorNodes(e) ==
    CASE e.kind = "IntegerConstant" -> 0
      [] e.kind = "Unary" -> 1 + OperatorNodes(e.expression)
      [] e.kind = "Binary" -> 1 + OperatorNodes(e.left) + OperatorNodes(e.right)

\* the operators of an expression in post-order: operands before their
\* operator, the left operand before the right one
RECURSIVE PostOrder(_)
PostOrder(e) ==
    CASE e.kind = "IntegerConstant" -> <<>>
      [] e.kind = "Unary" -> Append(PostOrder(e.expression), e.operator)
      [] e.kind = "Binary" ->
            Append(PostOrder(e.left) \o PostOrder(e.right), e.operator)

\* the destination an instruction writes, and the operator it computes it
\* for: the first Copy of a short circuit is 1 for And and 0 for Or
WritesOf(tis) ==
    [i \in {j \in DOMAIN tis : tis[j].kind \in {"Unary", "Binary", "Copy"}} |->
        [name |-> tis[i].destination.name,
         operator |->
            IF tis[i].kind # "Copy" THEN tis[i].operator
            ELSE IF tis[i].source.value = 1 THEN "And" ELSE "Or"]]

\* the positions where a destination is written for the first time
FirstWrites(tis) ==
    {i \in DOMAIN WritesOf(tis) :
        \A j \in DOMAIN WritesOf(tis) :
            j < i => WritesOf(tis)[j].name # WritesOf(tis)[i].name}

\* the first writes in the order of the list: the k-th of them
FirstWrite(tis, k) ==
    LET at == CHOOSE i \in FirstWrites(tis) :
                  Cardinality({j \in FirstWrites(tis) : j < i}) = k
    IN  WritesOf(tis)[at]

\* the number of && and || nodes
RECURSIVE ShortCircuitNodes(_)
ShortCircuitNodes(e) ==
    CASE e.kind = "IntegerConstant" -> 0
      [] e.kind = "Unary" -> ShortCircuitNodes(e.expression)
      [] e.kind = "Binary" ->
            (IF IsShortCircuit(e) THEN 1 ELSE 0)
            + ShortCircuitNodes(e.left) + ShortCircuitNodes(e.right)

\* what C23 says of the list generated for the expression
TemporariesInPostOrder ==
    LET m == OperatorNodes(cmm_expression)
        tis == tacky_instructions
    IN  /\ temp_counter = m
        /\ label_counter = 2 * ShortCircuitNodes(cmm_expression)
        /\ TemporariesOf(tis) = {"tmp." \o ToString(k) : k \in 0..(m - 1)}
        /\ Cardinality(FirstWrites(tis)) = m
        /\ \A k \in 0..(m - 1) :
              /\ FirstWrite(tis, k).name = "tmp." \o ToString(k)
              /\ FirstWrite(tis, k).operator = PostOrder(cmm_expression)[k + 1]
        /\ tis[Len(tis)] =
              TackyReturn(IF m = 0 THEN Constant(cmm_expression.value)
                          ELSE Variable("tmp." \o ToString(m - 1)))
        /\ m = 0 => Len(tis) = 1

\* C23: on a fresh TackyEmitter, lowering an expression with m operator nodes
\* allocates exactly tmp.0 .. tmp.(m-1), in post-order (operands before their
\* operator, left before right); the value returned is Variable(tmp.(m-1)),
\* or Constant(v) with no instruction emitted for Int(v); making labels does
\* not advance the temporary counter, and neither counter ever decreases
C23_TemporariesInPostOrder ==
    /\ [](TackyGenerated => TemporariesInPostOrder)
    /\ [][/\ temp_counter' >= temp_counter
          /\ label_counter' >= label_counter]_vars

\* a binary operator whose two operands are operator nodes, one of them an
\* ||: three temporaries and two labels
C23_Witness ==
    /\ TackyGenerated
    /\ cmm_expression \in BothOperandExpressions
    /\ cmm_expression.right.kind = "Binary"
    /\ temp_counter = 3
    /\ label_counter >= 2
    /\ PostOrder(cmm_expression)[1] = "Negate"

-----------------------------------------------------------------------------
(* Properties of the instruction conversion of comparisons *)

RelationalOperators ==
    {"Equal", "NotEqual", "LessThan", "GreaterThan", "LessThanEqual",
     "GreaterThanEqual"}

\* the condition code the claim gives for each relational operator
ClaimedConditionCode(operator) ==
    CASE operator = "Equal" -> "E"
      [] operator = "NotEqual" -> "NE"
      [] operator = "LessThan" -> "L"
      [] operator = "GreaterThan" -> "G"
      [] operator = "LessThanEqual" -> "LE"
      [] operator = "GreaterThanEqual" -> "GE"

\* 32-bit values around zero and at both ends of the range
ComparedValues == {-I32Max - 1, -I32Max, -1, 0, 1, 2, I32Max}

\* the flags after `cmpl left, right` (code_emission/mod.rs:92-99), which
\* subtracts left from right in 32 bits: zero, sign of the wrapped
\* difference, signed overflow
flags_of_cmp(left, right) ==
    LET overflow ==
            \/ left < 0 /\ right > I32Max + left
            \/ left > 0 /\ right < (-I32Max - 1) + left
    IN  [ZF |-> right = left,
         OF |-> overflow,
         SF |-> IF overflow THEN ~(right < left) ELSE right < left]

\* the byte `set<cc>` writes (code_emission/mod.rs:111-118, 276-285)
value_of_setcc(condition, flags) ==
    Truth(CASE condition = "E" -> flags.ZF
            [] condition = "NE" -> ~flags.ZF
            [] condition = "L" -> flags.SF # flags.OF
            [] condition = "GE" -> flags.SF = flags.OF
            [] condition = "LE" -> flags.ZF \/ flags.SF # flags.OF
            [] condition = "G" -> ~flags.ZF /\ flags.SF = flags.OF)

\* where the assembly of the i-th TACKY instruction begins, less one
RECURSIVE ConvertedBefore(_, _)
ConvertedBefore(tis, i) ==
    IF i = 1 THEN 0
    ELSE ConvertedBefore(tis, i - 1)
         + Len(convert_tacky_instruction(tis[i - 1]).value)

RelationalPositions(tis) ==
    {i \in DOMAIN tis :
        tis[i].kind = "Binary" /\ tis[i].operator \in RelationalOperators}

\* C24: instruction conversion of a relational Binary(op, s1, s2, d) yields
\* exactly Cmp(left = s2, right = s1); Mov(Imm(0), d); SetCC(cc, d) with cc =
\* E, NE, L, G, LE, GE for Equal, NotEqual, LessThan, GreaterThan,
\* LessThanEqual, GreaterThanEqual, so that d ends as 1 exactly when s1 op s2
\* holds; convert_condition_code fails with
\* UnsupportedConditionCodeConversion only for the arithmetic operators,
\* which never reach it
C24_RelationalConversion ==
    /\ stage # "codegen_error"
    /\ stage = "converted" =>
          \A i \in RelationalPositions(tacky_instructions) :
             LET ti == tacky_instructions[i]
                 from == ConvertedBefore(tacky_instructions, i)
                 d == convert_operand(ti.destination)
                 cc == ClaimedConditionCode(ti.operator)
             IN  /\ Len(asm_instructions) >= from + 3
                 /\ SubSeq(asm_instructions, from + 1, from + 3) =
                       <<Cmp(convert_operand(ti.source2),
                             convert_operand(ti.source1)),
                         Mov(Imm(0), d),
                         SetCC(cc, d)>>
                 /\ \A v1 \in ComparedValues, v2 \in ComparedValues :
                       LET cmp == asm_instructions[from + 1]
                           left == IF cmp.left = convert_operand(ti.source2)
                                   THEN v2 ELSE v1
                           right == IF cmp.right = convert_operand(ti.source1)
                                    THEN v1 ELSE v2
                       IN  ti.source1 # ti.source2 =>
                              value_of_setcc(
                                  asm_instructions[from + 3].condition,
                                  flags_of_cmp(left, right))
                              = execute_binary(ti.operator, v1, v2)
    /\ \A operator \in TackyBinaryOperator :
          LET cc == convert_condition_code(operator)
          IN  /\ cc.ok <=> operator \in RelationalOperators
              /\ ~cc.ok =>
                    /\ cc.error.kind = "UnsupportedConditionCodeConversion"
                    /\ operator \in {"Add", "Subtract", "Multiply", "Divide",
                                     "Remainder"}

\* a converted list with the comparison 2 < tmp.0
C24_Witness ==
    /\ stage = "converted"
    /\ tacky_instructions =
          <<TackyBinary("LessThan", Constant(2), Variable("tmp.0"),
                        Variable("tmp.1"))>>
    /\ asm_instructions =
          <<Cmp(Pseudo("tmp.0"), Imm(2)), Mov(Imm(0), Pseudo("tmp.1")),
            SetCC("L", Pseudo("tmp.1"))>>

-----------------------------------------------------------------------------
(* Properties of the fixup pass on single instructions *)

\* the six patterns the fixup pass is said to rewrite
ListedPattern(i) ==
    \/ i.kind = "Mov" /\ BothStack(i.source, i.destination)
    \/ i.kind = "Binary" /\ i.op \in {"Add", "Sub"}
          /\ BothStack(i.source, i.destination)
    \/ i.kind = "Binary" /\ i.op = "Mult" /\ i.destination.kind = "Stack"
    \/ i.kind = "Idiv" /\ i.operand.kind = "Imm"
    \/ i.kind = "Cmp" /\ BothStack(i.left, i.right)
    \/ i.kind = "Cmp" /\ i.right.kind = "Imm"

\* the number of instructions the fixup pass has output before it reaches
\* the k-th instruction of its input
RECURSIVE FixedBefore(_, _)
FixedBefore(instructions, k) ==
    IF k = 1 THEN 0
    ELSE FixedBefore(instructions, k - 1)
         + Len(fixup_asm_instruction(instructions[k - 1]))

\* C25: the fixup pass rewrites only the six listed patterns (Mov(Stack,Stack),
\* Add/Sub(Stack,Stack), Mult with Stack destination, Idiv(Imm),
\* Cmp(Stack,Stack), Cmp(x,Imm)); every other instruction is output unchanged
\* as exactly one instruction, in particular Idiv(Stack(_)), Idiv(Reg(_)) and
\* Binary(Mult, _, Reg(_))
C25_OnlyListedPatternsRewritten ==
    Returned =>
        \A k \in DOMAIN asm_instructions :
            ~ListedPattern(asm_instructions[k]) =>
                LET from == 1 + FixedBefore(asm_instructions, k)
                IN  /\ Len(fixup_asm_instruction(asm_instructions[k])) = 1
                    /\ final_instructions[from + 1] = asm_instructions[k]

-----------------------------------------------------------------------------
(* Properties of the control flow of the generated TACKY *)

\* every jump goes to a Label placed after it
JumpsForward(tis) ==
    \A j \in JumpPositions(tis) :
        \E k \in LabelPositions(tis) :
            /\ tis[k].label = tis[j].target
            /\ k > j

\* one Return, at the end
SingleReturnLast(tis) ==
    {k \in DOMAIN tis : tis[k].kind = "Return"} = {Len(tis)}

\* the list has been generated, and is perhaps being executed
Generated == stage \in {"tacky", "running", "returned", "trapped"}

\* a Divide or Remainder at pc has found its divisor zero
DividedByZero ==
    /\ stage = "trapped"
    /\ tacky_instructions[pc].kind = "Binary"
    /\ tacky_instructions[pc].operator \in {"Divide", "Remainder"}
    /\ value_of(tacky_instructions[pc].source2, env) = 0

-----------------------------------------------------------------------------
(* Properties of the whole pipeline: temporaries and their stack slots *)

PseudoReplaced == stage \in {"replaced", "allocated", "codegen"}

\* C27: for the full pipeline (IR generator with fresh counters, then the
\* code generator) the temporary tmp.k is always assigned Stack(-4*(k+1)):
\* slots are handed out in first-occurrence order and every temporary first
\* occurs in the assembly in the order of its index, nested && and ||
\* included
C27_SlotOfTemporary ==
    PseudoReplaced =>
        /\ {p[1] : p \in Replacements} =
              {"tmp." \o ToString(k) : k \in 0..(temp_counter - 1)}
        /\ \A p \in Replacements :
              \A k \in 0..(temp_counter - 1) :
                  p[1] = "tmp." \o ToString(k) =>
                      p[2] = Stack(-(4 * (k + 1)))

\* three temporaries, the last one the result of an && over two operator
\* nodes, one of them an ||
C27_Witness ==
    /\ stage = "codegen"
    /\ cmm_expression \in BothOperandExpressions
    /\ cmm_expression.operator = "And"
    /\ cmm_expression.right.kind = "Binary"
    /\ <<"tmp.2", Stack(-12)>> \in Replacements
    /\ <<"tmp.0", Stack(-4)>> \in Replacements

-----------------------------------------------------------------------------
(* Properties of the scratch registers in the returned list *)

\* the registers an instruction reads through its operands
RegistersRead(i) ==
    LET operands ==
            CASE i.kind = "Mov" -> {i.source}
              [] i.kind = "Unary" -> {i.operand}
              [] i.kind = "Binary" -> {i.source, i.destination}
              [] i.kind = "Cmp" -> {i.left, i.right}
              [] i.kind = "Idiv" -> {i.operand}
              [] OTHER -> {}
    IN  {o.reg : o \in {x \in operands : x.kind = "Register"}}

\* the registers an instruction writes: its destination operand, and AX and DX
\* for idiv, DX for cdq
RegistersWritten(i) ==
    LET operands ==
            CASE i.kind = "Mov" -> {i.destination}
              [] i.kind = "Unary" -> {i.operand}
              [] i.kind = "Binary" -> {i.destination}
              [] i.kind = "SetCC" -> {i.operand}
              [] OTHER -> {}
    IN  {o.reg : o \in {x \in operands : x.kind = "Register"}}
        \cup (IF i.kind = "Idiv" THEN {"AX", "DX"} ELSE {})
        \cup (IF i.kind = "Cdq" THEN {"DX"} ELSE {})

RegistersOf(i) ==
    {OperandsOf(i)[j].reg :
        j \in {n \in DOMAIN OperandsOf(i) : OperandsOf(i)[n].kind = "Register"}}

ScratchRegisters == {"R10", "R11"}

\* the instruction of the fixup pass's input that position p of the returned
\* list comes from (position 1 is the AllocateStack)
Origin(p) ==
    CHOOSE k \in DOMAIN asm_instructions :
        /\ FixedBefore(asm_instructions, k) < p - 1
        /\ p - 1 <= FixedBefore(asm_instructions, k)
                       + Len(fixup_asm_instruction(asm_instructions[k]))

\* position p of the returned list is part of a rewrite by the fixup pass
InsertedByFixup(p) ==
    /\ p > 1
    /\ Len(fixup_asm_instruction(asm_instructions[Origin(p)])) > 1

-----------------------------------------------------------------------------
(* Properties of the stack frame of the returned list *)

\* the offsets of the Stack operands of a list
StackOffsetsOf(instructions) ==
    UNION {{OperandsOf(instructions[k])[j].offset :
              j \in {n \in DOMAIN OperandsOf(instructions[k]) :
                        OperandsOf(instructions[k])[n].kind = "Stack"}} :
           k \in DOMAIN instructions}

\* C29: in the list returned by code_gen::convert_ast AllocateStack occurs
\* exactly once, as the first instruction, the magnitude of its operand is 4
\* times the number of distinct temporaries, and every Stack(offset) operand
\* has -magnitude <= offset <= -4 with offset a multiple of 4
C29_StackAccessInsideFrame ==
    Returned =>
        LET magnitude == Abs(final_instructions[1].stack_offset)
        IN  /\ {k \in DOMAIN final_instructions :
                   final_instructions[k].kind = "AllocateStack"} = {1}
            /\ magnitude =
                  4 * Cardinality(TemporariesOf(tacky_instructions))
            /\ \A offset \in StackOffsetsOf(final_instructions) :
                  /\ -magnitude <= offset
                  /\ offset <= -4
                  /\ (-offset) % 4 = 0

\* a returned list that uses three slots, the lowest at -12
C29_Witness ==
    /\ Returned
    /\ Abs(final_instructions[1].stack_offset) = 12
    /\ StackOffsetsOf(final_instructions) = {-4, -8, -12}

-----------------------------------------------------------------------------
(* parse_expression and the token after the expression *)

\* the number of tokens parse_statement has consumed when it calls
\* parse_expression: int main ( void ) { return
ExpressionStart == Len(FunctionTokens(<<>>)) - 2

\* the first n tokens after `return`, with the tokens before them
TokensUpTo(n) == SubSeq(tokens, 1, ExpressionStart + n)

\* what parse_expression returns when the list ends right after what it
\* accepted from token_list
EndedAfterExpression(token_list, accepted) ==
    parse_expression(SubSeq(token_list, 1, accepted.position),
                     ExpressionStart, 0)

\* parse_expression accepted an expression of token_list: a further token
\* follows the expression and is left unconsumed, that one token is enough
\* for the same result, and without it the call is UnexpectedEndOfInput
AcceptedWithFollowingToken(token_list, accepted) ==
    /\ accepted.position > ExpressionStart
    /\ accepted.position < Len(token_list)
    /\ peek_token(token_list, accepted.position)
           = Parsed(token_list[accepted.position + 1], accepted.position)
    /\ parse_expression(SubSeq(token_list, 1, accepted.position + 1),
                        ExpressionStart, 0) = accepted
    /\ ~EndedAfterExpression(token_list, accepted).ok
    /\ EndedAfterExpression(token_list, accepted).error = UnexpectedEndOfInput

\* C30: parse_expression returns Err(UnexpectedEndOfInput) whenever the token
\* list ends right after a complete expression, as on [Constant(1)]; it
\* accepts an expression only when a further token follows it, and on success
\* position points at that token, which is left unconsumed.
C30_FollowingTokenPeeked ==
    /\ ~parse_expression(<<TokenConstant(1)>>, 0, 0).ok
    /\ parse_expression(<<TokenConstant(1)>>, 0, 0).error = UnexpectedEndOfInput
    /\ parse_expression(<<TokenConstant(1), Token("Semicolon")>>, 0, 0)
           = Parsed(IntegerConstant(1), 1)
    /\ (ParseAstReturned /\ Len(tokens) > ExpressionStart) =>
           \A n \in 1..(Len(tokens) - ExpressionStart) :
               LET accepted == parse_expression(TokensUpTo(n), ExpressionStart, 0)
               IN  accepted.ok
                       => AcceptedWithFollowingToken(TokensUpTo(n), accepted)
    /\ (ParseAstReturned /\ Len(tokens) > ExpressionStart
        /\ \E following \in TrailingTokens :
               parse_expression(Append(tokens, following), ExpressionStart, 0).ok
               /\ parse_expression(Append(tokens, following), ExpressionStart, 0).position
                      = Len(tokens))
           => parse_result = Err(UnexpectedEndOfInput)

\* C30 witness: the tokens ended right after the complete expression 1 + 1,
\* which the same call accepts when a semicolon follows it.
C30_Witness ==
    /\ stage = "parse_error"
    /\ tokens = SubSeq(FunctionTokens(<<TokenConstant(1), Token("Plus"), TokenConstant(1)>>), 1, 10)
    /\ parse_result = Err(UnexpectedEndOfInput)
    /\ ~parse_expression(tokens, ExpressionStart, 0).ok
    /\ parse_expression(Append(tokens, Token("Semicolon")), ExpressionStart, 0).ok
    /\ parse_expression(Append(tokens, Token("Semicolon")), ExpressionStart, 0).position = 10
=============================================================================
